---- MODULE Spec2Model ----
(***************************************************************************)
(* State-machine model of the chat command of the Letta Raycast extension: *)
(* the conversation store (src/src/hooks/useConversations.ts) and the send *)
(* operation of the chat view (src/src/chat.tsx).                          *)
(*                                                                         *)
(* Conventions.  A text is a sequence of one-character strings, so that    *)
(* length, concatenation, trim and slice are the operations of the code.   *)
(* A React state update (setX(prev => f(prev))) is applied to the state    *)
(* when it is issued; what the handlers of the view see is the snapshot    *)
(* taken at the last render (the closure values of useCallback/useMemo).   *)
(* One action is one synchronous block of a handler, from one await to the *)
(* next; a block reads the clock once.  The clock advances by the action   *)
(* Tick, which the specifications about identifiers and timestamps take.   *)
(***************************************************************************)
EXTENDS Integers, Sequences, FiniteSets, TLC

\* ------------------------------------------------------------------ bounds
MaxSends == 2      \* sends of the chat view started in one behaviour
MaxEvents == 3     \* events the backend yields over all streams
MaxNow == 1        \* largest value of the millisecond clock
MaxOps == 2        \* store operations issued in the store-only specification
MaxRand == 1       \* Math.random() draws 0..MaxRand in the store-only specification
MaxCalls == 3      \* getClientForAccount calls made by callers other than useAgents

\* ------------------------------------------------------------------- texts
Undefined == <<"undefined">>           \* JavaScript undefined (no text holds a two-character element)
T_empty == <<>>
T_hello == <<"h", "e", "l", "l", "o">>
T_Hi == <<"H", "i">>
T_HiThere == <<"H", "i", " ", "t", "h", "e", "r", "e">>
T_Yo == <<"Y", "o">>
T_r == <<"r">>
T_h == <<"h">>
T_NewConversation ==
  <<"N", "e", "w", " ", "C", "o", "n", "v", "e", "r", "s", "a", "t", "i", "o", "n">>
T_Ellipsis == <<".", ".", ".">>
T_project1 == <<"p", "r", "o", "j", "e", "c", "t", "1">>
T_Default == <<"D", "e", "f", "a", "u", "l", "t">>
T_Work == <<"W", "o", "r", "k">>
T_Home == <<"H", "o", "m", "e">>

\* JavaScript truthiness of a string-or-undefined value.
Truthy(v) == v # Undefined /\ v # T_empty

\* a || b on string-or-undefined values.
OrElse(a, b) == IF Truthy(a) THEN a ELSE b

IsSpace(ch) == ch = " "

RECURSIVE TrimStart(_)
TrimStart(t) == IF t # <<>> /\ IsSpace(Head(t)) THEN TrimStart(Tail(t)) ELSE t

RECURSIVE TrimEnd(_)
TrimEnd(t) ==
  IF t # <<>> /\ IsSpace(t[Len(t)]) THEN TrimEnd(SubSeq(t, 1, Len(t) - 1)) ELSE t

\* String.prototype.trim
Trim(t) == TrimEnd(TrimStart(t))

\* String.prototype.slice(0, n) for n >= 0
SliceTo(t, n) == SubSeq(t, 1, IF n < Len(t) THEN n ELSE Len(t))

RECURSIVE JoinWith(_, _)
\* Array.prototype.join(sep) on an array of texts
JoinWith(parts, sep) ==
  IF parts = <<>> THEN <<>>
  ELSE IF Len(parts) = 1 THEN parts[1]
  ELSE parts[1] \o sep \o JoinWith(Tail(parts), sep)

\* ------------------------------------------------------------ types.ts
TitleLimit == 50
TitleKeep == 47

\* messages.find((m) => m.role === "user")
FirstUserIndex(messages) ==
  IF \E i \in DOMAIN messages : messages[i].role = "user"
  THEN CHOOSE i \in DOMAIN messages :
         /\ messages[i].role = "user"
         /\ \A j \in 1..(i - 1) : messages[j].role # "user"
  ELSE 0

\* A plausible slip of the title rule: the limit is taken as exclusive.
generateConversationTitleExclusive(messages) ==
  IF FirstUserIndex(messages) = 0 THEN T_NewConversation
  ELSE LET content == Trim(messages[FirstUserIndex(messages)].content)
       IN IF Len(content) < TitleLimit THEN content
          ELSE SliceTo(content, TitleKeep) \o T_Ellipsis

generateConversationTitle(messages) ==
  IF FirstUserIndex(messages) = 0 THEN T_NewConversation
  ELSE LET content == Trim(messages[FirstUserIndex(messages)].content)
       IN IF Len(content) <= TitleLimit THEN content
          ELSE SliceTo(content, TitleKeep) \o T_Ellipsis

\* ------------------------------------------------- useConversations.ts
\* `${Date.now()}-${Math.random().toString(36).substr(2, 9)}`: the clock
\* reading and the random suffix, nothing else.
generateId(t, r) == <<t, r>>

NoId == <<>>

\* The object startConversation builds for an agent.
NewConversation(agent, id, t) ==
  [id |-> id, agentId |-> agent.id, agentName |-> agent.name,
   agentColor |-> agent.color, accountId |-> agent.accountId,
   accountName |-> agent.accountName, messages |-> <<>>, title |-> Undefined,
   createdAt |-> t, updatedAt |-> t]

\* The updater of startConversation: [newConversation, ...prev]
StartUpdater(prev, newConversation) == <<newConversation>> \o prev

\* The object addMessage builds: { ...message, id: generateId() }
NewMessage(role, content, t, id) ==
  [id |-> id, role |-> role, content |-> content, timestamp |-> t,
   reasoning |-> Undefined,
   toolCalls |-> <<>>]      \* the optional toolCalls, never set by a caller: none

\* A plausible slip of addMessage: the new message is put in front.
AddMessageUpdaterPrepend(prev, conversationId, newMessage, t) ==
  [i \in DOMAIN prev |->
     IF prev[i].id # conversationId THEN prev[i]
     ELSE LET updatedMessages == <<newMessage>> \o prev[i].messages
          IN [prev[i] EXCEPT
                !.messages = updatedMessages,
                !.title = OrElse(prev[i].title, generateConversationTitle(updatedMessages)),
                !.updatedAt = t]]

\* The updater of addMessage.
AddMessageUpdater(prev, conversationId, newMessage, t) ==
  [i \in DOMAIN prev |->
     IF prev[i].id # conversationId THEN prev[i]
     ELSE LET updatedMessages == Append(prev[i].messages, newMessage)
          IN [prev[i] EXCEPT
                !.messages = updatedMessages,
                !.title = OrElse(prev[i].title, generateConversationTitle(updatedMessages)),
                !.updatedAt = t]]

\* A plausible slip of updateLastMessage: a conversation the collection no
\* longer holds is put back with the message the update carries.
UpdateLastMessageUpsert(prev, conversationId, content, reasoning, t) ==
  IF \A i \in DOMAIN prev : prev[i].id # conversationId
  THEN <<[id |-> conversationId, agentId |-> "A1", agentName |-> "Alpha",
          agentColor |-> "Blue", accountId |-> T_project1, accountName |-> T_Work,
          messages |-> <<[NewMessage("assistant", content, t, NoId)
                            EXCEPT !.reasoning = reasoning]>>,
          title |-> Undefined, createdAt |-> t, updatedAt |-> t]>> \o prev
  ELSE [i \in DOMAIN prev |->
          IF prev[i].id # conversationId \/ Len(prev[i].messages) = 0 THEN prev[i]
          ELSE LET n == Len(prev[i].messages)
               IN [prev[i] EXCEPT
                     !.messages = IF prev[i].messages[n].role = "assistant"
                                  THEN [prev[i].messages EXCEPT
                                          ![n] = [prev[i].messages[n] EXCEPT
                                                    !.content = content,
                                                    !.reasoning = reasoning]]
                                  ELSE prev[i].messages,
                     !.updatedAt = t]]

\* A plausible slip of updateLastMessage: the role of the last message is not looked at.
UpdateLastMessageAnyRole(prev, conversationId, content, reasoning, t) ==
  [i \in DOMAIN prev |->
     IF prev[i].id # conversationId THEN prev[i]
     ELSE IF Len(prev[i].messages) = 0 THEN prev[i]
     ELSE [prev[i] EXCEPT
             !.messages[Len(prev[i].messages)].content = content,
             !.messages[Len(prev[i].messages)].reasoning = reasoning,
             !.updatedAt = t]]

\* The updater of updateLastMessage.
UpdateLastMessageUpdater(prev, conversationId, content, reasoning, t) ==
  [i \in DOMAIN prev |->
     IF prev[i].id # conversationId THEN prev[i]
     ELSE IF Len(prev[i].messages) = 0 THEN prev[i]
     ELSE LET n == Len(prev[i].messages)
              lastMessage == prev[i].messages[n]
              messages == IF lastMessage.role = "assistant"
                          THEN [prev[i].messages EXCEPT
                                  ![n] = [lastMessage EXCEPT !.content = content,
                                                             !.reasoning = reasoning]]
                          ELSE prev[i].messages
          IN [prev[i] EXCEPT !.messages = messages, !.updatedAt = t]]

\* A plausible slip of deleteConversation: the pointer is cleared whatever it held.
PointerAlwaysCleared(closureActive, current, conversationId) == NoId

\* deleteConversation: if (activeConversationId === conversationId)
\* setActiveConversationId(null), on the activeConversationId of its closure.
PointerAfterDelete(closureActive, current, conversationId) ==
  IF closureActive = conversationId THEN NoId ELSE current

RECURSIVE FilterOut(_, _)
\* The updater of deleteConversation: prev.filter((c) => c.id !== conversationId)
FilterOut(prev, conversationId) ==
  IF prev = <<>> THEN <<>>
  ELSE IF Head(prev).id = conversationId THEN FilterOut(Tail(prev), conversationId)
  ELSE <<Head(prev)>> \o FilterOut(Tail(prev), conversationId)

\* conversations.find((c) => c.id === conversationId): its index, 0 when absent
FindIndex(convs, conversationId) ==
  IF \E i \in DOMAIN convs : convs[i].id = conversationId
  THEN CHOOSE i \in DOMAIN convs :
         /\ convs[i].id = conversationId
         /\ \A j \in 1..(i - 1) : convs[j].id # conversationId
  ELSE 0

\* JSON.stringify of the collection: a Date becomes its ISO string, a property
\* whose value is undefined is dropped (here: stays marked undefined).
StringifyMessage(m) == [m EXCEPT !.timestamp = <<"iso", m.timestamp>>]

StringifyConversation(c) ==
  [c EXCEPT !.createdAt = <<"iso", c.createdAt>>,
            !.updatedAt = <<"iso", c.updatedAt>>,
            !.messages = [k \in DOMAIN c.messages |-> StringifyMessage(c.messages[k])]]

Stringify(convs) == [i \in DOMAIN convs |-> StringifyConversation(convs[i])]

\* new Date(isoString)
ParseDate(d) == d[2]

\* A plausible slip of the restore step: every conversation is put under the primary account.
RestoreConversationPrimary(conv) ==
  [conv EXCEPT
     !.accountId = T_project1,
     !.accountName = OrElse(conv.accountName, T_Default),
     !.createdAt = ParseDate(conv.createdAt),
     !.updatedAt = ParseDate(conv.updatedAt),
     !.messages = [k \in DOMAIN conv.messages |->
                     [conv.messages[k] EXCEPT !.timestamp = ParseDate(conv.messages[k].timestamp)]]]

\* The restore step of load: defaults for the account fields, Dates rebuilt.
RestoreConversation(conv) ==
  [conv EXCEPT
     !.accountId = OrElse(conv.accountId, T_project1),
     !.accountName = OrElse(conv.accountName, T_Default),
     !.createdAt = ParseDate(conv.createdAt),
     !.updatedAt = ParseDate(conv.updatedAt),
     !.messages = [k \in DOMAIN conv.messages |->
                     [conv.messages[k] EXCEPT !.timestamp = ParseDate(conv.messages[k].timestamp)]]]

Restore(parsed) == [i \in DOMAIN parsed |-> RestoreConversation(parsed[i])]

\* ------------------------------------------------------------ accounts, agents
\* The accounts of the preferences (parseAccounts): project1 and project2 are configured.
ConfiguredAccounts == {T_project1, <<"p", "r", "o", "j", "e", "c", "t", "2">>}

NoAgent == "none"

\* The agents the backend may list (AgentWithAccount).  A3 is an agent of a cached
\* listing whose account is no longer configured.
AgentRec(a) ==
  IF a = "A1" THEN [id |-> "A1", name |-> "Alpha", color |-> "Blue",
                    accountId |-> T_project1, accountName |-> T_Work]
  ELSE IF a = "A2" THEN [id |-> "A2", name |-> "Beta", color |-> "Green",
                         accountId |-> <<"p", "r", "o", "j", "e", "c", "t", "2">>,
                         accountName |-> T_Home]
  ELSE [id |-> "A3", name |-> "Gamma", color |-> "Orange",
        accountId |-> <<"p", "r", "o", "j", "e", "c", "t", "3">>,
        accountName |-> T_Home]

\* getClientForAgent: the client of the agent's account, absent for an unknown account.
HasClient(a) == AgentRec(a).accountId \in ConfiguredAccounts

\* ------------------------------------------------------------ stream events
M1 == <<"m", "1">>
M2 == <<"m", "2">>
NL == <<"\n">>

StringContent(t) == [kind |-> "string", text |-> t, blocks |-> <<>>]
ArrayContent(bs) == [kind |-> "array", text |-> <<>>, blocks |-> bs]
NoContent == [kind |-> "undefined", text |-> <<>>, blocks |-> <<>>]
TextBlock(t) == [kind |-> "text", text |-> t]
StringBlock(t) == [kind |-> "string", text |-> t]
OtherBlock == [kind |-> "other", text |-> <<>>]

\* The tool_call of an event: none, or the call's id and the tool's name.
NoToolCall == [tool_call_id |-> Undefined, name |-> Undefined]
ToolCall(toolCallId, name) == [tool_call_id |-> toolCallId, name |-> name]

Event(type, id, content, reasoning, hidden) ==
  [message_type |-> type, id |-> id, content |-> content,
   reasoning |-> reasoning, hidden_reasoning |-> hidden, tool_call |-> NoToolCall]

AssistantEvent(id, content) == Event("assistant_message", id, content, Undefined, Undefined)
ReasoningEvent(id, t) == Event("reasoning_message", id, NoContent, t, Undefined)
HiddenReasoningEvent(id, t) == Event("hidden_reasoning_message", id, NoContent, Undefined, t)
ToolCallEvent(id, toolCallId, name) ==
  [Event("tool_call_message", id, NoContent, Undefined, Undefined)
     EXCEPT !.tool_call = ToolCall(toolCallId, name)]
ErrorEvent == Event("error_message", Undefined, NoContent, Undefined, Undefined)
StopReasonError == Event("stop_reason", Undefined, NoContent, Undefined, Undefined)

\* Events the switch has no case for: a tool result, a keepalive, the usage
\* accounting, and an event of an unknown type that carries content and reasoning.
ToolReturnEvent == Event("tool_return_message", M2, NoContent, Undefined, Undefined)
PingEvent == Event("ping", Undefined, NoContent, Undefined, Undefined)
UsageEvent == Event("usage_statistics", Undefined, NoContent, Undefined, Undefined)
UnknownEvent == Event("future_message", M1, StringContent(T_Yo), T_h, Undefined)

RECURSIVE BlockTexts(_)
\* the texts array extractAssistantContent builds from an array content
BlockTexts(blocks) ==
  IF blocks = <<>> THEN <<>>
  ELSE (IF Head(blocks).kind \in {"string", "text"} THEN <<Head(blocks).text>> ELSE <<>>)
       \o BlockTexts(Tail(blocks))

extractAssistantContent(content) ==
  IF content.kind = "string" THEN content.text
  ELSE IF content.kind = "array" THEN JoinWith(BlockTexts(content.blocks), <<>>)
  ELSE <<>>

\* Map<string, string> as the sequence of its entries in insertion order.
MapHas(m, k) == \E i \in DOMAIN m : m[i].key = k
MapGet(m, k) == IF MapHas(m, k) THEN (m[CHOOSE i \in DOMAIN m : m[i].key = k]).value ELSE Undefined
MapSet(m, k, v) ==
  IF MapHas(m, k) THEN [i \in DOMAIN m |-> IF m[i].key = k THEN [key |-> k, value |-> v] ELSE m[i]]
  ELSE Append(m, [key |-> k, value |-> v])
MapValues(m) == [i \in DOMAIN m |-> m[i].value]

\* A plausible slip of the per-identifier rule: every content event is appended.
TrackContentAppend(map, messageId, content) ==
  Append(map, [key |-> messageId, value |-> content])

\* chat.tsx, assistant_message case: the map after a content event for messageId.
TrackContent(map, messageId, content) ==
  LET existing == OrElse(MapGet(map, messageId), <<>>)
  IN IF Len(content) > Len(existing) THEN MapSet(map, messageId, content) ELSE map

\* The locals of the stream loop of sendMessage (chat.tsx).
NoLocals ==
  [contentByMessageId |-> <<>>, reasoningParts |-> <<>>,
   finalAnswer |-> <<>>, finalReasoning |-> <<>>]

\* Whether the switch of the stream loop pushes an update for this event.
PushesUpdate(event) ==
  /\ event.message_type = "assistant_message"
  /\ Truthy(extractAssistantContent(event.content))
  /\ Truthy(event.id)

\* A plausible slip of the switch: an event is classified by the fields it
\* carries, not by its message_type.
ProcessChunkByFields(loc, event) ==
  IF Truthy(extractAssistantContent(event.content)) /\ Truthy(event.id)
  THEN LET map == TrackContent(loc.contentByMessageId, event.id,
                               extractAssistantContent(event.content))
       IN [loc EXCEPT !.contentByMessageId = map,
                      !.finalAnswer = JoinWith(MapValues(map), <<>>)]
  ELSE LET reasoning == OrElse(OrElse(event.reasoning, event.hidden_reasoning), <<>>)
       IN IF Truthy(reasoning)
          THEN [loc EXCEPT !.reasoningParts = Append(@, reasoning),
                           !.finalReasoning = JoinWith(Append(loc.reasoningParts, reasoning), NL)]
          ELSE loc

\* One pass of the body of the for-await loop over the locals.
ProcessChunk(loc, event) ==
  IF event.message_type = "assistant_message"
  THEN IF PushesUpdate(event)
       THEN LET map == TrackContent(loc.contentByMessageId, event.id,
                                    extractAssistantContent(event.content))
            IN [loc EXCEPT !.contentByMessageId = map,
                           !.finalAnswer = JoinWith(MapValues(map), <<>>)]
       ELSE loc
  ELSE IF event.message_type \in {"reasoning_message", "hidden_reasoning_message"}
  THEN LET reasoning == OrElse(OrElse(event.reasoning, event.hidden_reasoning), <<>>)
       IN IF Truthy(reasoning)
          THEN [loc EXCEPT !.reasoningParts = Append(@, reasoning),
                           !.finalReasoning = JoinWith(Append(loc.reasoningParts, reasoning), NL)]
          ELSE loc
  ELSE loc

\* The non-streaming response: an array, or an object with (or without) messages.
Response(shape, messages) == [shape |-> shape, messages |-> messages]

\* Array.isArray(response) ? response : (response.messages ?? [])
ResponseMessages(response) ==
  IF response.shape \in {"array", "wrapped"} THEN response.messages ELSE <<>>

RECURSIVE FallbackAccumulate(_, _)
\* The loop of the fallback over the response messages, from the locals it finds.
FallbackAccumulate(loc, messages) ==
  IF messages = <<>> THEN loc
  ELSE LET msg == Head(messages)
           next == IF msg.message_type = "assistant_message"
                   THEN [loc EXCEPT !.finalAnswer = @ \o extractAssistantContent(msg.content)]
                   ELSE IF msg.message_type = "reasoning_message"
                   THEN [loc EXCEPT !.finalReasoning = @ \o OrElse(msg.reasoning, <<>>)]
                   ELSE loc
       IN FallbackAccumulate(next, Tail(messages))

\* ------------------------------------------------------------------ state
VARIABLES
  conversations,         \* useConversations: the collection, newest first
  activeConversationId,  \* useConversations: id of the active conversation, NoId for null
  agentFilter,           \* useConversations: "all" or an agent id
  isLoading,             \* useConversations: the initial read has not settled
  storage,               \* LocalStorage, key "letta-conversations": NoBlob or the blob
  pendingWrites,         \* LocalStorage.setItem calls issued and not yet settled, oldest first
  loadRead,              \* what the pending LocalStorage.getItem delivers; NoRead once settled
  agentsWithColors,      \* ChatCommand: the agent listing (ids, in listing order)
  agentsLoading,         \* useAgents: the listing has not settled
  searchText,            \* ChatCommand: the search bar text
  isStreaming,           \* ChatCommand: the streaming flag
  streamingContent,      \* ChatCommand: the live answer text
  view,                  \* what the handlers of the last render closed over
  now,                   \* the millisecond clock (Date.now())
  draws,                 \* Math.random() draws made so far
  send,                  \* the invocations of sendMessage: locals and position
  nEvents,               \* events yielded by the backend so far
  attempt,               \* outcome of the last handleSubmit: what the user was told
  op,                    \* store-only specification: the last operation issued and its arguments
  prefs,                 \* the extension preferences (getPreferenceValues)
  clientCache,           \* useAccounts: the module-level Map of clients, in insertion order
  constructed,           \* Letta clients constructed so far
  clientLog,             \* the getClientForAccount calls made: account id and what was returned
  listRequests,          \* useAgents: the agents.list request of each account, in account order
  agentsData,            \* useAgents: the promise of the aggregate listing
  selectedItem           \* the list item selected in the UI (its action panel is shown)

storeVars == <<conversations, activeConversationId, agentFilter, isLoading,
               storage, pendingWrites, loadRead>>
viewVars == <<agentsWithColors, agentsLoading, searchText, isStreaming,
              streamingContent, view>>
vars == <<conversations, activeConversationId, agentFilter, isLoading, storage,
          pendingWrites, loadRead, agentsWithColors, agentsLoading, searchText,
          isStreaming, streamingContent, view, now, draws, send, nEvents, attempt, op,
          prefs, clientCache, constructed, clientLog, listRequests, agentsData,
          selectedItem>>
uiVars == <<selectedItem>>
serviceVars == <<prefs, clientCache, constructed, clientLog, listRequests, agentsData>>

Sends == 1..MaxSends

\* ------------------------------------------------------- the rendered view
NoConv == [id |-> NoId, agentId |-> NoAgent]

\* useConversations, activeConversation memo
ActiveConversationOf(convs, activeId) ==
  IF activeId = NoId \/ FindIndex(convs, activeId) = 0 THEN NoConv
  ELSE [id |-> convs[FindIndex(convs, activeId)].id,
        agentId |-> convs[FindIndex(convs, activeId)].agentId]

\* agentsWithColors.find((a) => a.id === id): the id, NoAgent when absent
FindAgent(agents, id) == IF \E i \in DOMAIN agents : agents[i] = id THEN id ELSE NoAgent

\* ChatCommand, selectedAgent memo
SelectedAgentOf(active, filter, agents) ==
  IF active # NoConv THEN FindAgent(agents, active.agentId)
  ELSE IF FindAgent(agents, filter) # NoAgent THEN filter
  ELSE IF agents # <<>> THEN agents[1]
  ELSE NoAgent

\* ids of the summaries (filteredConversations)
ListedOf(convs, filter) ==
  {convs[i].id : i \in {j \in DOMAIN convs : filter = "all" \/ convs[j].agentId = filter}}

\* Everything the handlers of a render close over, from the state at that render.
ViewOf ==
  LET active == ActiveConversationOf(conversations, activeConversationId)
      listed == ListedOf(conversations, agentFilter)
  IN [isStreaming |-> isStreaming,
      activeConversation |-> active,
      activeConversationId |-> activeConversationId,
      selectedAgent |-> SelectedAgentOf(active, agentFilter, agentsWithColors),
      searchText |-> searchText,
      agents |-> agentsWithColors,
      listed |-> listed,
      \* a "Send Message" action is on every list item and on the empty view
      \* shown when nothing loads, agents exist and no conversation is listed
      canSubmit |-> \/ listed # {}
                    \/ /\ ~(agentsLoading \/ isLoading \/ isStreaming)
                       /\ agentsWithColors # <<>>]

\* ---------------------------------------------------- the sends of the view
IdleSend ==
  [pc |-> "idle", text |-> <<>>, agentId |-> NoAgent, convId |-> NoId,
   loc |-> NoLocals, streamingWorked |-> FALSE,
   \* history, for the properties
   started |-> FALSE, countBefore |-> 0, toast |-> "none",
   streamRequests |-> 0, fallbackRequests |-> 0, streamFailed |-> FALSE,
   seen |-> <<>>, response |-> Response("none", <<>>), updates |-> <<>>]

\* What LocalStorage holds under the key, and what a read of it delivers.
NoBlob == [kind |-> "none", convs |-> <<>>]          \* nothing stored
Blob(convs) == [kind |-> "json", convs |-> Stringify(convs)]
NoRead == [kind |-> "settled", convs |-> <<>>]       \* the initial read has settled

\* save(convs): one more LocalStorage.setItem in flight
Save(writes, convs) == Append(writes, Blob(convs))

\* updateLastMessage: if (shouldSave) save(updated)
SaveIfAsked(writes, updated, shouldSave) ==
  IF shouldSave THEN Save(writes, updated) ELSE writes

\* The methods client.agents.messages may offer, by SDK version.
StreamMethods == {"createStream", "stream", "none"}

\* The events a stream of the backend may yield, and the non-streaming responses.
EnginePool ==
  {AssistantEvent(M1, StringContent(T_Hi)),
   AssistantEvent(M1, StringContent(T_HiThere)),
   AssistantEvent(Undefined, StringContent(T_Hi)),
   AssistantEvent(Undefined, StringContent(T_HiThere)),
   AssistantEvent(M2, ArrayContent(<<TextBlock(T_Yo), OtherBlock>>)),
   AssistantEvent(M2, StringContent(T_empty)),
   ReasoningEvent(M1, T_r),
   HiddenReasoningEvent(M1, T_h),
   ErrorEvent,
   StopReasonError,
   ToolCallEvent(M2, <<"t", "1">>, <<"s", "e", "a", "r", "c", "h">>)}

ViewPool == {AssistantEvent(M1, StringContent(T_Hi))}

ViewResponses == {Response("array", <<AssistantEvent(M1, StringContent(T_Yo))>>)}

FallbackResponses ==
  {Response("array", <<AssistantEvent(M1, StringContent(T_Yo))>>),
   Response("wrapped", <<ReasoningEvent(M1, T_r),
                         AssistantEvent(Undefined, ArrayContent(<<StringBlock(T_Hi)>>)),
                         ReasoningEvent(M2, T_h)>>),
   Response("object", <<>>)}

\* --------------------------------------------------------------- the view
\* A render: the handlers close over the current state; then the effect that
\* selects the first agent while the filter is "all" runs.
Render ==
  /\ \/ view # ViewOf
     \/ agentsWithColors # <<>> /\ agentFilter = "all"
  /\ view' = ViewOf
  /\ agentFilter' = IF agentsWithColors # <<>> /\ agentFilter = "all"
                    THEN agentsWithColors[1] ELSE agentFilter
  /\ UNCHANGED <<serviceVars, uiVars, conversations, activeConversationId, isLoading, storage, pendingWrites,
                 loadRead, agentsWithColors, agentsLoading, searchText, isStreaming,
                 streamingContent, now, draws, send, nEvents, attempt, op>>

\* useAgents: the listing settles.
AgentsLoaded(listing) ==
  /\ agentsLoading
  /\ agentsWithColors' = listing
  /\ agentsLoading' = FALSE
  /\ UNCHANGED <<serviceVars, uiVars, storeVars, searchText, isStreaming, streamingContent, view, now, draws,
                 send, nEvents, attempt, op>>

\* The Refresh Agents action: revalidate; the previous listing is kept meanwhile.
RefreshAgents ==
  /\ ~agentsLoading
  /\ agentsLoading' = TRUE
  /\ UNCHANGED <<serviceVars, uiVars, storeVars, agentsWithColors, searchText, isStreaming,
                 streamingContent, view, now, draws, send, nEvents, attempt, op>>

\* onSearchTextChange
TypeText(t) ==
  /\ searchText # t
  /\ searchText' = t
  /\ UNCHANGED <<serviceVars, uiVars, storeVars, agentsWithColors, agentsLoading, isStreaming,
                 streamingContent, view, now, draws, send, nEvents, attempt, op>>

\* onSelectionChange of the list: setActiveConversation(id)
SelectConversation(id) ==
  /\ id \in view.listed
  /\ selectedItem # id \/ activeConversationId # id
  /\ selectedItem' = id
  /\ activeConversationId' = id
  /\ UNCHANGED <<serviceVars, conversations, agentFilter, isLoading, storage, pendingWrites, loadRead,
                 viewVars, now, draws, send, nEvents, attempt, op>>

\* onChange of the agent dropdown: setAgentFilter(newAgentId); setActiveConversation(null)
ChangeAgent(a) ==
  /\ \E i \in DOMAIN view.agents : view.agents[i] = a
  /\ agentFilter # a \/ activeConversationId # NoId
  /\ agentFilter' = a
  /\ activeConversationId' = NoId
  /\ UNCHANGED <<serviceVars, uiVars, conversations, isLoading, storage, pendingWrites, loadRead,
                 viewVars, now, draws, send, nEvents, attempt, op>>

\* The Delete Conversation action of the selected item, confirmed: deleteConversation
\* as the render closed over it.
DeleteSelected ==
  /\ op.count < MaxOps
  /\ selectedItem \in view.listed
  /\ LET updated == FilterOut(conversations, selectedItem)
     IN /\ conversations' = updated
        /\ pendingWrites' = Save(pendingWrites, updated)
  /\ activeConversationId' = PointerAfterDelete(view.activeConversationId,
                                                activeConversationId, selectedItem)
  /\ selectedItem' = NoId
  /\ op' = [name |-> "deleteConversation", conversationId |-> selectedItem,
            before |-> conversations, role |-> "none", content |-> <<>>,
            reasoning |-> <<>>, id |-> NoId, count |-> op.count + 1]
  /\ UNCHANGED <<serviceVars, agentFilter, isLoading, storage, loadRead, viewVars, now,
                 draws, send, nEvents, attempt>>

\* The clock advances (between two store operations).
Tick ==
  /\ now < MaxNow
  /\ now' = now + 1
  /\ UNCHANGED <<serviceVars, uiVars, storeVars, viewVars, draws, send, nEvents, attempt, op>>

\* ----------------------------------------------------------- LocalStorage
\* The oldest setItem in flight lands.
WriteLands ==
  /\ pendingWrites # <<>>
  /\ storage' = Head(pendingWrites)
  /\ pendingWrites' = Tail(pendingWrites)
  /\ UNCHANGED <<serviceVars, uiVars, conversations, activeConversationId, agentFilter, isLoading, loadRead,
                 viewVars, now, draws, send, nEvents, attempt, op>>

\* The oldest setItem in flight rejects: save catches and logs.
WriteFails ==
  /\ pendingWrites # <<>>
  /\ pendingWrites' = Tail(pendingWrites)
  /\ UNCHANGED <<serviceVars, uiVars, conversations, activeConversationId, agentFilter, isLoading, storage,
                 loadRead, viewVars, now, draws, send, nEvents, attempt, op>>

\* load: getItem delivered a blob that parses; the collection is replaced by it.
LoadRestores ==
  /\ loadRead.kind = "json"
  /\ conversations' = Restore(loadRead.convs)
  /\ isLoading' = FALSE
  /\ loadRead' = NoRead
  /\ UNCHANGED <<serviceVars, uiVars, activeConversationId, agentFilter, storage, pendingWrites,
                 viewVars, now, draws, send, nEvents, attempt, op>>

\* A plausible slip of load: no catch and no finally around the read.
LoadOutcomeUncaught(read) ==
  IF read.kind \in {"corrupt", "throws"}
  THEN [isLoading |-> TRUE, read |-> [kind |-> "rejected", convs |-> <<>>]]
  ELSE [isLoading |-> FALSE, read |-> NoRead]

\* load, for a read that delivers no collection: the catch logs what was thrown,
\* the finally sets the flag; the promise of load resolves.
LoadOutcome(read) == [isLoading |-> FALSE, read |-> NoRead]

\* load: getItem found nothing, rejected, or JSON.parse threw.
LoadWithoutData ==
  /\ loadRead.kind \in {"none", "corrupt", "throws"}
  /\ isLoading' = LoadOutcome(loadRead).isLoading
  /\ loadRead' = LoadOutcome(loadRead).read
  /\ UNCHANGED <<serviceVars, uiVars, conversations, activeConversationId, agentFilter, storage, pendingWrites,
                 viewVars, now, draws, send, nEvents, attempt, op>>

\* ------------------------------------------------ handleSubmit, sendMessage
NextSend(s) == send[s].pc = "idle" /\ \A q \in 1..(s - 1) : send[q].pc # "idle"

Told(outcome, error) == [outcome |-> outcome, error |-> error]

\* handleSubmit with a blank text or no selected agent: nothing is called.
SubmitIgnored ==
  /\ view.canSubmit
  /\ ~Truthy(Trim(view.searchText)) \/ view.selectedAgent = NoAgent
  /\ attempt' = Told(IF view.selectedAgent = NoAgent THEN "no-agent" ELSE "blank", FALSE)
  /\ attempt' # attempt
  /\ UNCHANGED <<serviceVars, uiVars, storeVars, viewVars, now, draws, send, nEvents, op>>

\* sendMessage returns at its guard because the closed-over isStreaming is set;
\* handleSubmit then clears the search text.
SubmitWhileStreaming ==
  /\ view.canSubmit
  /\ Truthy(Trim(view.searchText)) /\ view.selectedAgent # NoAgent
  /\ view.isStreaming
  /\ attempt' = Told("busy", FALSE)
  /\ searchText' = <<>>
  /\ UNCHANGED <<serviceVars, uiVars, storeVars, agentsWithColors, agentsLoading, isStreaming,
                 streamingContent, view, now, draws, send, nEvents, op>>

\* sendMessage finds no client for the agent's account: failure toast, return.
SubmitNoClient ==
  /\ view.canSubmit
  /\ Truthy(Trim(view.searchText)) /\ view.selectedAgent # NoAgent
  /\ ~view.isStreaming
  /\ ~HasClient(view.selectedAgent)
  /\ attempt' = Told("no-client", TRUE)
  /\ searchText' = <<>>
  /\ UNCHANGED <<serviceVars, uiVars, storeVars, agentsWithColors, agentsLoading, isStreaming,
                 streamingContent, view, now, draws, send, nEvents, op>>

\* sendMessage up to its first await: conversation found or started, the user
\* message and the placeholder appended, the stream method probed and called
\* (or, with no stream method, the non-streaming request issued).
SubmitSend(s, method) ==
  /\ NextSend(s)
  /\ view.canSubmit
  /\ Truthy(Trim(view.searchText)) /\ view.selectedAgent # NoAgent
  /\ ~view.isStreaming
  /\ HasClient(view.selectedAgent)
  /\ LET text == Trim(view.searchText)
         agent == AgentRec(view.selectedAgent)
         startNew == \/ view.activeConversation = NoConv
                     \/ view.activeConversation.agentId # agent.id
         convId == IF startNew THEN generateId(now, draws) ELSE view.activeConversation.id
         convs1 == IF startNew
                   THEN StartUpdater(conversations, NewConversation(agent, convId, now))
                   ELSE conversations
         w1 == IF startNew THEN Save(pendingWrites, convs1) ELSE pendingWrites
         d1 == IF startNew THEN draws + 1 ELSE draws
         convs2 == AddMessageUpdater(convs1, convId,
                                     NewMessage("user", text, now, generateId(now, d1)), now)
         w2 == Save(w1, convs2)
         convs3 == AddMessageUpdater(convs2, convId,
                                     NewMessage("assistant", <<>>, now, generateId(now, d1 + 1)), now)
         w3 == Save(w2, convs3)
         before == IF FindIndex(conversations, convId) = 0 THEN 0
                   ELSE Len(conversations[FindIndex(conversations, convId)].messages)
     IN /\ conversations' = convs3
        /\ pendingWrites' = w3
        /\ draws' = d1 + 2
        /\ activeConversationId' = IF startNew THEN convId ELSE activeConversationId
        /\ send' = [send EXCEPT ![s] =
                      [IdleSend EXCEPT
                         !.pc = IF method = "none" THEN "awaitCreate" ELSE "awaitStream",
                         !.text = text, !.agentId = agent.id, !.convId = convId,
                         !.started = TRUE, !.countBefore = before,
                         !.streamRequests = IF method = "none" THEN 0 ELSE 1,
                         !.fallbackRequests = IF method = "none" THEN 1 ELSE 0,
                         !.streamFailed = (method = "none")]]
  /\ isStreaming' = TRUE
  /\ streamingContent' = <<>>
  /\ searchText' = <<>>
  /\ attempt' = Told("sent", FALSE)
  /\ UNCHANGED <<serviceVars, uiVars, agentFilter, isLoading, storage, loadRead, agentsWithColors,
                 agentsLoading, view, now, nEvents, op>>

\* The stream request resolves: the for-await loop starts.
StreamOpens(s) ==
  /\ send[s].pc = "awaitStream"
  /\ send' = [send EXCEPT ![s].pc = "streaming"]
  /\ UNCHANGED <<serviceVars, uiVars, storeVars, viewVars, now, draws, nEvents, attempt, op>>

\* The stream request throws, or iterating the stream throws: the inner catch
\* swallows it and the non-streaming request is issued.
StreamFails(s) ==
  /\ send[s].pc \in {"awaitStream", "streaming"}
  /\ send' = [send EXCEPT ![s].pc = "awaitCreate",
                          ![s].streamFailed = TRUE,
                          ![s].fallbackRequests = @ + 1]
  /\ UNCHANGED <<serviceVars, uiVars, storeVars, viewVars, now, draws, nEvents, attempt, op>>

\* One chunk of the stream: the body of the for-await loop.
StreamYields(s, event) ==
  /\ send[s].pc = "streaming"
  /\ nEvents < MaxEvents
  /\ nEvents' = nEvents + 1
  /\ LET loc == ProcessChunk(send[s].loc, event)
     IN IF PushesUpdate(event)
        THEN /\ streamingContent' = loc.finalAnswer
             /\ conversations' = UpdateLastMessageUpdater(conversations, send[s].convId,
                                   loc.finalAnswer, loc.finalReasoning, now)
             /\ pendingWrites' = SaveIfAsked(pendingWrites, conversations', FALSE)
             /\ send' = [send EXCEPT
                           ![s].loc = loc,
                           ![s].seen = Append(@, event),
                           ![s].updates = Append(@, [persist |-> FALSE,
                                                     content |-> loc.finalAnswer,
                                                     reasoning |-> loc.finalReasoning])]
        ELSE /\ send' = [send EXCEPT ![s].loc = loc, ![s].seen = Append(@, event)]
             /\ UNCHANGED <<serviceVars, uiVars, streamingContent, conversations, pendingWrites>>
  /\ UNCHANGED <<serviceVars, uiVars, activeConversationId, agentFilter, isLoading, storage,
                 loadRead, agentsWithColors, agentsLoading, searchText, isStreaming,
                 view, now, draws, attempt, op>>

\* The tail of sendMessage once the answer is known: the final updateLastMessage
\* (shouldSave = true), the success toast, the finally block.
Settle(s, loc) ==
  /\ conversations' = UpdateLastMessageUpdater(conversations, send[s].convId,
                        loc.finalAnswer, loc.finalReasoning, now)
  /\ pendingWrites' = SaveIfAsked(pendingWrites, conversations', TRUE)
  /\ isStreaming' = FALSE
  /\ streamingContent' = <<>>
  /\ UNCHANGED <<serviceVars, uiVars, activeConversationId, agentFilter, isLoading, storage, loadRead,
                 agentsWithColors, agentsLoading, searchText, view, now, draws,
                 nEvents, attempt, op>>

\* The stream ends: streamingWorked, no fallback.
StreamEnds(s) ==
  /\ send[s].pc = "streaming"
  /\ send' = [send EXCEPT
                ![s].pc = "done", ![s].streamingWorked = TRUE, ![s].toast = "success",
                ![s].updates = Append(@, [persist |-> TRUE,
                                          content |-> send[s].loc.finalAnswer,
                                          reasoning |-> send[s].loc.finalReasoning])]
  /\ Settle(s, send[s].loc)

\* The non-streaming request resolves: its messages are accumulated.
CreateResolves(s, response) ==
  /\ send[s].pc = "awaitCreate"
  /\ LET loc == FallbackAccumulate(send[s].loc, ResponseMessages(response))
     IN /\ send' = [send EXCEPT
                      ![s].pc = "done", ![s].loc = loc, ![s].toast = "success",
                      ![s].response = response,
                      ![s].updates = Append(@, [persist |-> TRUE,
                                                content |-> loc.finalAnswer,
                                                reasoning |-> loc.finalReasoning])]
        /\ Settle(s, loc)

\* A plausible slip of sendMessage: the outer catch without the finally block.
CreateThrowsNoFinally(s) ==
  /\ send[s].pc = "awaitCreate"
  /\ send' = [send EXCEPT ![s].pc = "done", ![s].toast = "failure"]
  /\ UNCHANGED <<serviceVars, uiVars, storeVars, viewVars, now, draws, nEvents, attempt, op>>

\* The non-streaming request throws: the outer catch shows the failure toast,
\* then the finally block.
CreateThrows(s) ==
  /\ send[s].pc = "awaitCreate"
  /\ send' = [send EXCEPT ![s].pc = "done", ![s].toast = "failure"]
  /\ isStreaming' = FALSE
  /\ streamingContent' = <<>>
  /\ UNCHANGED <<serviceVars, uiVars, storeVars, agentsWithColors, agentsLoading, searchText, view, now,
                 draws, nEvents, attempt, op>>

\* ------------------------------------------------- useAccounts, useAgents
T_project2 == <<"p", "r", "o", "j", "e", "c", "t", "2">>
T_project3 == <<"p", "r", "o", "j", "e", "c", "t", "3">>
T_k1 == <<"k", "1">>
T_k2 == <<"k", "2">>

\* The preferences: projects 1 and 2 (projects 3 to 5 go through the loop of project 2).
Prefs(name1, key1, name2, key2) ==
  [project1Name |-> name1, project1ApiKey |-> key1,
   project2Name |-> name2, project2ApiKey |-> key2]

DefaultPrefs == Prefs(T_Work, T_k1, T_Home, T_k2)

\* The configurations a user may have saved.
PrefsChoices ==
  {DefaultPrefs,
   Prefs(T_empty, T_k1, T_Home, T_k2),
   Prefs(T_Work, T_k1, T_empty, T_k2),
   Prefs(T_Work, T_k1, T_Work, T_k1)}

parseAccounts(p) ==
  (IF Truthy(p.project1ApiKey)
   THEN <<[id |-> T_project1, name |-> OrElse(p.project1Name, T_Default),
           apiKey |-> p.project1ApiKey]>>
   ELSE <<>>)
  \o (IF Truthy(p.project2Name) /\ Truthy(p.project2ApiKey)
      THEN <<[id |-> T_project2, name |-> p.project2Name, apiKey |-> p.project2ApiKey]>>
      ELSE <<>>)

\* accounts.find((a) => a.id === accountId): its index, 0 when absent
FindAccount(accounts, accountId) ==
  IF \E i \in DOMAIN accounts : accounts[i].id = accountId
  THEN CHOOSE i \in DOMAIN accounts :
         /\ accounts[i].id = accountId
         /\ \A j \in 1..(i - 1) : accounts[j].id # accountId
  ELSE 0

\* `${account.id}-${account.apiKey}`
CacheKey(account) == account.id \o <<"-">> \o account.apiKey

NoClient == 0

\* The outcome of a client lookup: the client, the cache and the construction count after it.
Lookup(client, cache, count) == [client |-> client, cache |-> cache, constructed |-> count]

\* A plausible slip of getOrCreateClient: the cache is not consulted.
getOrCreateClientUncached(cache, count, account) ==
  Lookup(count + 1, MapSet(cache, CacheKey(account), count + 1), count + 1)

\* getOrCreateClient: a client is the number of its construction.
getOrCreateClient(cache, count, account) ==
  IF MapHas(cache, CacheKey(account))
  THEN Lookup(MapGet(cache, CacheKey(account)), cache, count)
  ELSE Lookup(count + 1, MapSet(cache, CacheKey(account), count + 1), count + 1)

\* getClientForAccount of useAccounts
ClientForAccount(cache, count, accountId) ==
  LET accounts == parseAccounts(prefs)
      at == FindAccount(accounts, accountId)
  IN IF at = 0 THEN Lookup(NoClient, cache, count)
     ELSE getOrCreateClient(cache, count, accounts[at])

\* A caller asks for the client of an account id.
getClientForAccount(accountId) ==
  /\ Len(clientLog) < MaxCalls
  /\ LET found == ClientForAccount(clientCache, constructed, accountId)
     IN /\ clientCache' = found.cache
        /\ constructed' = found.constructed
        /\ clientLog' = Append(clientLog, [accountId |-> accountId, client |-> found.client])
  /\ UNCHANGED <<uiVars, storeVars, viewVars, now, draws, send, nEvents, attempt, op,
                 prefs, listRequests, agentsData>>

\* localeCompare on the names of the model: letter by letter, case aside.
LowerCase == <<"a", "b", "c", "d", "e", "f", "g", "h", "i", "j", "k", "l", "m",
               "n", "o", "p", "q", "r", "s", "t", "u", "v", "w", "x", "y", "z">>
UpperCase == <<"A", "B", "C", "D", "E", "F", "G", "H", "I", "J", "K", "L", "M",
               "N", "O", "P", "Q", "R", "S", "T", "U", "V", "W", "X", "Y", "Z">>
CharRank(ch) == CHOOSE i \in DOMAIN LowerCase : LowerCase[i] = ch \/ UpperCase[i] = ch

RECURSIVE localeCompare(_, _)
localeCompare(a, b) ==
  IF a = <<>> /\ b = <<>> THEN 0
  ELSE IF a = <<>> THEN 0 - 1
  ELSE IF b = <<>> THEN 1
  ELSE IF CharRank(Head(a)) < CharRank(Head(b)) THEN 0 - 1
  ELSE IF CharRank(Head(a)) > CharRank(Head(b)) THEN 1
  ELSE localeCompare(Tail(a), Tail(b))

\* The comparator of the aggregate listing: account name, then agent name.
CompareAgents(a, b) ==
  IF localeCompare(a.accountName, b.accountName) # 0
  THEN localeCompare(a.accountName, b.accountName)
  ELSE localeCompare(a.name, b.name)

RECURSIVE InsertSorted(_, _)
InsertSorted(sorted, x) ==
  IF sorted = <<>> THEN <<x>>
  ELSE IF CompareAgents(x, Head(sorted)) < 0 THEN <<x>> \o sorted
  ELSE <<Head(sorted)>> \o InsertSorted(Tail(sorted), x)

RECURSIVE SortAgents(_)
\* Array.prototype.sort with the comparator (stable)
SortAgents(list) ==
  IF list = <<>> THEN <<>>
  ELSE InsertSorted(SortAgents(SubSeq(list, 1, Len(list) - 1)), list[Len(list)])

RECURSIVE Flat(_)
\* Array.prototype.flat
Flat(lists) == IF lists = <<>> THEN <<>> ELSE Head(lists) \o Flat(Tail(lists))

\* What client.agents.list resolves with: an array, a page with body or data, an
\* async iterable, or an object of another shape (which carries no agent list).
Raw(id, name) == [id |-> id, name |-> name]
ListResult(shape, items) == [shape |-> shape, items |-> items]

RawListings ==
  {<<>>,
   <<Raw("A1", <<"b", "e", "t", "a">>)>>,
   <<Raw("A2", <<"b", "e", "t", "a">>), Raw("A3", <<"a", "l", "p", "h", "a">>)>>}

ListResults ==
  {ListResult(shape, items) : shape \in {"array", "body", "data", "iterable"},
                              items \in RawListings}
    \cup {ListResult("other", <<>>)}

\* fetchAgentsForAccount: the summaries of a resolved request
fetchAgentsForAccount(account, result) ==
  LET agentsList == IF result.shape \in {"array", "body", "data", "iterable"}
                    THEN result.items ELSE <<>>
  IN [k \in DOMAIN agentsList |->
        [id |-> agentsList[k].id, name |-> agentsList[k].name,
         accountId |-> account.id, accountName |-> account.name]]

\* The request of one account.
PendingRequest == [state |-> "pending", result |-> ListResult("none", <<>>), at |-> 0]
NoData == [state |-> "idle", agents |-> <<>>]

\* What the promise of one account settles to, as Promise.all sees it.
Settled(ok, agents) == [ok |-> ok, agents |-> agents]

\* A plausible slip of the fan-out: no try/catch around the request of an account.
AccountOutcomeUncaught(account, request) ==
  IF request.state = "resolved"
  THEN Settled(TRUE, fetchAgentsForAccount(account, request.result))
  ELSE Settled(FALSE, <<>>)

\* The callback mapped over the accounts: its own catch turns a failure into [].
AccountOutcome(account, request) ==
  IF request.state = "resolved"
  THEN Settled(TRUE, fetchAgentsForAccount(account, request.result))
  ELSE Settled(TRUE, <<>>)

RECURSIVE ClientsFor(_, _, _, _)
\* getClientForAccount called for each account in turn by the fan-out
ClientsFor(accounts, cache, count, log) ==
  IF accounts = <<>> THEN [cache |-> cache, constructed |-> count, log |-> log]
  ELSE LET found == ClientForAccount(cache, count, Head(accounts).id)
       IN ClientsFor(Tail(accounts), found.cache, found.constructed,
                     Append(log, [accountId |-> Head(accounts).id, client |-> found.client]))

\* useCachedPromise runs the fetch: a client and a request per account.
FetchStarts ==
  /\ agentsData.state = "idle"
  /\ LET accounts == parseAccounts(prefs)
         clients == ClientsFor(accounts, clientCache, constructed, clientLog)
     IN /\ clientCache' = clients.cache
        /\ constructed' = clients.constructed
        /\ clientLog' = clients.log
        /\ listRequests' = [i \in DOMAIN accounts |-> PendingRequest]
  /\ agentsData' = [state |-> "pending", agents |-> <<>>]
  /\ UNCHANGED <<uiVars, storeVars, viewVars, now, draws, send, nEvents, attempt, op, prefs>>

SettledCount == Cardinality({i \in DOMAIN listRequests : listRequests[i].state # "pending"})

\* The request of account i resolves.
ListResolves(i, result) ==
  /\ agentsData.state = "pending"
  /\ listRequests[i].state = "pending"
  /\ listRequests' = [listRequests EXCEPT
                        ![i] = [state |-> "resolved", result |-> result, at |-> SettledCount + 1]]
  /\ UNCHANGED <<uiVars, storeVars, viewVars, now, draws, send, nEvents, attempt, op,
                 prefs, clientCache, constructed, clientLog, agentsData>>

\* The request of account i rejects, or iterating its result throws.
ListRejects(i) ==
  /\ agentsData.state = "pending"
  /\ listRequests[i].state = "pending"
  /\ listRequests' = [listRequests EXCEPT
                        ![i] = [state |-> "rejected", result |-> ListResult("none", <<>>),
                                at |-> SettledCount + 1]]
  /\ UNCHANGED <<uiVars, storeVars, viewVars, now, draws, send, nEvents, attempt, op,
                 prefs, clientCache, constructed, clientLog, agentsData>>

\* Promise.all settles: the results are flattened and sorted.
Aggregate ==
  /\ agentsData.state = "pending"
  /\ \A i \in DOMAIN listRequests : listRequests[i].state # "pending"
  /\ LET accounts == parseAccounts(prefs)
         results == [i \in DOMAIN listRequests |-> AccountOutcome(accounts[i], listRequests[i])]
     IN agentsData' =
          IF \A i \in DOMAIN results : results[i].ok
          THEN [state |-> "resolved",
                agents |-> SortAgents(Flat([i \in DOMAIN results |-> results[i].agents]))]
          ELSE [state |-> "rejected", agents |-> <<>>]
  /\ UNCHANGED <<uiVars, storeVars, viewVars, now, draws, send, nEvents, attempt, op,
                 prefs, clientCache, constructed, clientLog, listRequests>>

\* The services before any call, under the default configuration.
ServicesIdle ==
  /\ prefs = DefaultPrefs
  /\ clientCache = <<>>
  /\ constructed = 0
  /\ clientLog = <<>>
  /\ listRequests = <<>>
  /\ agentsData = NoData
  /\ selectedItem = NoId

\* ------------------------------------------------------- the chat command
\* What storage may hold when the command opens: nothing, or the blob of an
\* earlier session (one conversation with agent A1, one exchange).
StoredTime == 0 - 1

StoredConversation ==
  [NewConversation(AgentRec("A1"), generateId(StoredTime, 0), StoredTime) EXCEPT
     !.messages = <<NewMessage("user", T_hello, StoredTime, generateId(StoredTime, 1)),
                    [NewMessage("assistant", T_Hi, StoredTime, generateId(StoredTime, 2))
                       EXCEPT !.reasoning = T_empty]>>,
     !.title = T_hello]

InitialBlobs == {NoBlob, Blob(<<StoredConversation>>)}

AgentListings == {<<"A1", "A2">>, <<"A2", "A3">>, <<>>}

Inputs == {T_hello}

NoOp == [name |-> "none", conversationId |-> NoId, before |-> <<>>, role |-> "none",
         content |-> <<>>, reasoning |-> <<>>, id |-> NoId, count |-> 0]

Init ==
  /\ conversations = <<>>
  /\ activeConversationId = NoId
  /\ agentFilter = "all"
  /\ isLoading = TRUE
  /\ storage \in InitialBlobs
  /\ pendingWrites = <<>>
  /\ loadRead = storage
  /\ agentsWithColors = <<>>
  /\ agentsLoading = TRUE
  /\ searchText = <<>>
  /\ isStreaming = FALSE
  /\ streamingContent = <<>>
  /\ view = ViewOf
  /\ now = 0
  /\ draws = 0
  /\ send = [s \in Sends |-> IdleSend]
  /\ nEvents = 0
  /\ attempt = Told("none", FALSE)
  /\ op = NoOp
  /\ ServicesIdle

\* The chat command from its mount on: load, listing, renders, navigation, the
\* storage settling its writes, and one send at a time.
Next ==
  \/ Render
  \/ \E listing \in AgentListings : AgentsLoaded(listing)
  \/ \E t \in Inputs : TypeText(t)
  \/ \E id \in view.listed : SelectConversation(id)
  \/ \E a \in {"A1", "A2", "A3"} : ChangeAgent(a)
  \/ WriteLands
  \/ WriteFails
  \/ LoadRestores
  \/ LoadWithoutData
  \/ SubmitIgnored
  \/ SubmitWhileStreaming
  \/ SubmitNoClient
  \/ \E method \in StreamMethods : SubmitSend(1, method)
  \/ StreamOpens(1)
  \/ StreamFails(1)
  \/ \E event \in ViewPool : StreamYields(1, event)
  \/ StreamEnds(1)
  \/ \E response \in ViewResponses : CreateResolves(1, response)
  \/ CreateThrows(1)

Spec == Init /\ [][Next]_vars

\* The chat command with submits racing the render: the sends may overlap; the
\* agent dropdown is left alone and the storage is slow (its writes stay in flight).
NextRace ==
  \/ Render
  \/ \E listing \in AgentListings : AgentsLoaded(listing)
  \/ \E t \in Inputs : TypeText(t)
  \/ \E id \in view.listed : SelectConversation(id)
  \/ LoadRestores
  \/ LoadWithoutData
  \/ SubmitWhileStreaming
  \/ \E s \in Sends, method \in StreamMethods : SubmitSend(s, method)
  \/ \E s \in Sends : StreamOpens(s)
  \/ \E s \in Sends : StreamFails(s)
  \/ \E s \in Sends, event \in ViewPool : StreamYields(s, event)
  \/ \E s \in Sends : StreamEnds(s)
  \/ \E s \in Sends, response \in ViewResponses : CreateResolves(s, response)
  \/ \E s \in Sends : CreateThrows(s)

SpecRace == Init /\ [][NextRace]_vars

\* One send against the whole repertoire of the backend, from a settled view:
\* agents A1 and A2 listed, A1 selected, the store loaded (empty, or holding the
\* stored conversation, selected or not), "hello" typed.
InitEngine ==
  /\ \E stored \in BOOLEAN :
       /\ conversations = IF stored THEN Restore(Blob(<<StoredConversation>>).convs) ELSE <<>>
       /\ storage = IF stored THEN Blob(<<StoredConversation>>) ELSE NoBlob
       /\ activeConversationId \in
            (IF stored THEN {NoId, StoredConversation.id} ELSE {NoId})
  /\ agentFilter = "A1"
  /\ isLoading = FALSE
  /\ pendingWrites = <<>>
  /\ loadRead = NoRead
  /\ agentsWithColors = <<"A1", "A2">>
  /\ agentsLoading = FALSE
  /\ searchText \in {T_hello, <<" ">> \o T_hello \o <<" ">>}
  /\ isStreaming = FALSE
  /\ streamingContent = <<>>
  /\ view = ViewOf
  /\ now = 0
  /\ draws = 0
  /\ send = [s \in Sends |-> IdleSend]
  /\ nEvents = 0
  /\ attempt = Told("none", FALSE)
  /\ op = NoOp
  /\ ServicesIdle

NextEngine ==
  \/ Render
  \/ \E method \in StreamMethods : SubmitSend(1, method)
  \/ StreamOpens(1)
  \/ StreamFails(1)
  \/ \E event \in EnginePool : StreamYields(1, event)
  \/ StreamEnds(1)
  \/ \E response \in FallbackResponses : CreateResolves(1, response)
  \/ CreateThrows(1)

SpecEngine == InitEngine /\ [][NextEngine]_vars

\* The same send with a backend that answers: the stream request settles, a
\* stream that opened ends or breaks, the non-streaming request settles.
LivePool ==
  {AssistantEvent(M1, StringContent(T_Hi)),
   ReasoningEvent(M1, T_r),
   ErrorEvent}

NextEngineLive ==
  \/ Render
  \/ \E method \in StreamMethods : SubmitSend(1, method)
  \/ StreamOpens(1)
  \/ StreamFails(1)
  \/ \E event \in LivePool : StreamYields(1, event)
  \/ StreamEnds(1)
  \/ \E response \in FallbackResponses : CreateResolves(1, response)
  \/ CreateThrows(1)

SpecEngineLive ==
  /\ InitEngine
  /\ [][NextEngineLive]_vars
  /\ WF_vars(StreamOpens(1) \/ StreamFails(1))
  /\ WF_vars(StreamEnds(1) \/ StreamFails(1))
  /\ WF_vars((\E response \in FallbackResponses : CreateResolves(1, response)) \/ CreateThrows(1))

\* One send whose stream mixes content and reasoning with events that call for
\* nothing.
QuietPool ==
  {AssistantEvent(M1, StringContent(T_Hi)),
   ReasoningEvent(M1, T_r),
   ToolReturnEvent, PingEvent, UsageEvent, UnknownEvent}

NextQuiet ==
  \/ Render
  \/ \E method \in StreamMethods : SubmitSend(1, method)
  \/ StreamOpens(1)
  \/ StreamFails(1)
  \/ \E event \in QuietPool : StreamYields(1, event)
  \/ StreamEnds(1)
  \/ \E response \in FallbackResponses : CreateResolves(1, response)
  \/ CreateThrows(1)

SpecQuiet == InitEngine /\ [][NextQuiet]_vars

\* --------------------------------------------- the store, operation by operation
\* The operations of useConversations issued one after the other with any
\* arguments, any reading of the clock and any draw of Math.random().
OpsLeft == op.count < MaxOps

Issued(name, conversationId, role, content, reasoning, id) ==
  [name |-> name, conversationId |-> conversationId, before |-> conversations,
   role |-> role, content |-> content, reasoning |-> reasoning, id |-> id,
   count |-> op.count + 1]

\* ids a caller may pass: those of the collection, and one that names nothing
KnownIds == {conversations[i].id : i \in DOMAIN conversations} \cup {generateId(StoredTime, 9)}


startConversation(a, r) ==
  /\ OpsLeft
  /\ LET id == generateId(now, r)
         updated == StartUpdater(conversations, NewConversation(AgentRec(a), id, now))
     IN /\ conversations' = updated
        /\ pendingWrites' = Save(pendingWrites, updated)
        /\ activeConversationId' = id
        /\ op' = Issued("startConversation", id, "none", <<>>, <<>>, id)
  /\ UNCHANGED <<serviceVars, uiVars, agentFilter, isLoading, storage, loadRead, viewVars, now, draws, send,
                 nEvents, attempt>>

addMessage(conversationId, role, content, r) ==
  /\ OpsLeft
  /\ LET newMessage == NewMessage(role, content, now, generateId(now, r))
         updated == AddMessageUpdater(conversations, conversationId, newMessage, now)
     IN /\ conversations' = updated
        /\ pendingWrites' = Save(pendingWrites, updated)
        /\ op' = Issued("addMessage", conversationId, role, content, <<>>, newMessage.id)
  /\ UNCHANGED <<serviceVars, uiVars, activeConversationId, agentFilter, isLoading, storage, loadRead, viewVars,
                 now, draws, send, nEvents, attempt>>

updateLastMessage(conversationId, content, reasoning, shouldSave) ==
  /\ OpsLeft
  /\ LET updated == UpdateLastMessageUpdater(conversations, conversationId, content,
                                             reasoning, now)
     IN /\ conversations' = updated
        /\ pendingWrites' = SaveIfAsked(pendingWrites, updated, shouldSave)
        /\ op' = Issued("updateLastMessage", conversationId, "none", content, reasoning, NoId)
  /\ UNCHANGED <<serviceVars, uiVars, activeConversationId, agentFilter, isLoading, storage, loadRead, viewVars,
                 now, draws, send, nEvents, attempt>>

setActiveConversation(conversationId) ==
  /\ OpsLeft
  /\ activeConversationId' = conversationId
  /\ op' = Issued("setActiveConversation", conversationId, "none", <<>>, <<>>, NoId)
  /\ UNCHANGED <<serviceVars, uiVars, conversations, agentFilter, isLoading, storage, pendingWrites, loadRead,
                 viewVars, now, draws, send, nEvents, attempt>>

\* A caller that has re-rendered since the pointer last changed deletes a conversation.
deleteConversation(conversationId) ==
  /\ OpsLeft
  /\ LET updated == FilterOut(conversations, conversationId)
     IN /\ conversations' = updated
        /\ pendingWrites' = Save(pendingWrites, updated)
  /\ activeConversationId' = PointerAfterDelete(activeConversationId, activeConversationId,
                                                conversationId)
  /\ op' = Issued("deleteConversation", conversationId, "none", <<>>, <<>>, NoId)
  /\ UNCHANGED <<serviceVars, uiVars, agentFilter, isLoading, storage, loadRead, viewVars, now, draws, send,
                 nEvents, attempt>>

clearAllConversations ==
  /\ OpsLeft
  /\ conversations' = <<>>
  /\ activeConversationId' = NoId
  /\ pendingWrites' = Save(pendingWrites, <<>>)
  /\ op' = Issued("clearAllConversations", NoId, "none", <<>>, <<>>, NoId)
  /\ UNCHANGED <<serviceVars, uiVars, agentFilter, isLoading, storage, loadRead, viewVars, now, draws, send,
                 nEvents, attempt>>

\* The store once its load has settled: empty, or holding the stored conversation.
InitStore ==
  /\ \E stored \in BOOLEAN :
       /\ conversations = IF stored THEN Restore(Blob(<<StoredConversation>>).convs) ELSE <<>>
       /\ storage = IF stored THEN Blob(<<StoredConversation>>) ELSE NoBlob
  /\ activeConversationId = NoId
  /\ agentFilter = "all"
  /\ isLoading = FALSE
  /\ pendingWrites = <<>>
  /\ loadRead = NoRead
  /\ agentsWithColors = <<>>
  /\ agentsLoading = TRUE
  /\ searchText = <<>>
  /\ isStreaming = FALSE
  /\ streamingContent = <<>>
  /\ view = ViewOf
  /\ now = 0
  /\ draws = 0
  /\ send = [s \in Sends |-> IdleSend]
  /\ nEvents = 0
  /\ attempt = Told("none", FALSE)
  /\ op = NoOp
  /\ ServicesIdle

NextStore ==
  \/ Tick
  \/ \E r \in 0..MaxRand : startConversation("A1", r)
  \/ \E id \in KnownIds, role \in {"user", "assistant"}, r \in 0..MaxRand :
        addMessage(id, role, T_Hi, r)
  \/ \E id \in KnownIds, shouldSave \in BOOLEAN :
        updateLastMessage(id, T_HiThere, T_r, shouldSave)
  \/ \E id \in KnownIds \cup {NoId} : setActiveConversation(id)
  \/ \E id \in KnownIds : deleteConversation(id)
  \/ clearAllConversations

SpecStore == InitStore /\ [][NextStore]_vars

\* ------------------------------------------- the accounts and their agents
\* Any configuration; callers ask for clients; the agents are fetched once.
\* A second stored conversation, of an agent of the second account.
StoredConversation2 ==
  [NewConversation(AgentRec("A2"), generateId(StoredTime, 3), StoredTime) EXCEPT
     !.messages = <<NewMessage("user", T_Yo, StoredTime, generateId(StoredTime, 4)),
                    [NewMessage("assistant", T_Hi, StoredTime, generateId(StoredTime, 6))
                       EXCEPT !.reasoning = T_empty]>>,
     !.title = T_Yo]

InitBrowse ==
  /\ conversations = <<>>
  /\ activeConversationId = NoId
  /\ agentFilter = "all"
  /\ isLoading = TRUE
  /\ storage = Blob(<<StoredConversation, StoredConversation2>>)
  /\ pendingWrites = <<>>
  /\ loadRead = storage
  /\ agentsWithColors = <<>>
  /\ agentsLoading = TRUE
  /\ searchText = <<>>
  /\ isStreaming = FALSE
  /\ streamingContent = <<>>
  /\ view = ViewOf
  /\ now = 0
  /\ draws = 0
  /\ send = [s \in Sends |-> IdleSend]
  /\ nEvents = 0
  /\ attempt = Told("none", FALSE)
  /\ op = NoOp
  /\ ServicesIdle

\* The chat command browsing its stored conversations: selection, the agent
\* dropdown, the Delete Conversation action, clearAllConversations, and a
\* non-streaming send.
NextBrowse ==
  \/ Render
  \/ \E listing \in {<<"A1", "A2">>, <<"A2">>} : AgentsLoaded(listing)
  \/ LoadRestores
  \/ \E id \in view.listed : SelectConversation(id)
  \/ \E a \in {"A1", "A2"} : ChangeAgent(a)
  \/ DeleteSelected
  \/ clearAllConversations
  \/ \E t \in Inputs : TypeText(t)
  \/ SubmitSend(1, "none")
  \/ \E response \in ViewResponses : CreateResolves(1, response)

SpecBrowse == InitBrowse /\ [][NextBrowse]_vars

\* The chat command with its agent listing refreshed: the listing may change
\* under the dropdown's selection; sends are non-streaming.
NextRefresh ==
  \/ Render
  \/ \E listing \in AgentListings : AgentsLoaded(listing)
  \/ RefreshAgents
  \/ LoadRestores
  \/ LoadWithoutData
  \/ \E a \in {"A1", "A2", "A3"} : ChangeAgent(a)
  \/ \E t \in Inputs : TypeText(t)
  \/ SubmitSend(1, "none")
  \/ \E response \in ViewResponses : CreateResolves(1, response)
  \/ CreateThrows(1)

SpecRefresh == Init /\ [][NextRefresh]_vars

\* What LocalStorage may hold at mount, and what getItem may do with it.
CorruptBlob == [kind |-> "corrupt", convs |-> <<>>]
ThrowingRead == [kind |-> "throws", convs |-> <<>>]

\* A conversation persisted before multi-account support: no accountId, no
\* accountName.  The blob holds it next to one that carries both.
LegacyConversation ==
  [StoredConversation EXCEPT !.id = generateId(StoredTime, 5),
                             !.accountId = Undefined, !.accountName = Undefined]

LegacyBlob == Blob(<<LegacyConversation, StoredConversation2>>)

InitLoad ==
  /\ conversations = <<>>
  /\ activeConversationId = NoId
  /\ agentFilter = "all"
  /\ isLoading = TRUE
  /\ storage \in InitialBlobs \cup {CorruptBlob, LegacyBlob}
  /\ pendingWrites = <<>>
  /\ loadRead \in {storage, ThrowingRead}
  /\ agentsWithColors = <<>>
  /\ agentsLoading = TRUE
  /\ searchText = <<>>
  /\ isStreaming = FALSE
  /\ streamingContent = <<>>
  /\ view = ViewOf
  /\ now = 0
  /\ draws = 0
  /\ send = [s \in Sends |-> IdleSend]
  /\ nEvents = 0
  /\ attempt = Told("none", FALSE)
  /\ op = NoOp
  /\ prefs \in PrefsChoices
  /\ clientCache = <<>>
  /\ constructed = 0
  /\ clientLog = <<>>
  /\ listRequests = <<>>
  /\ agentsData = NoData
  /\ selectedItem = NoId

\* The chat command around its initial read: whatever else happens, the
\* promise of getItem settles and the continuation of load runs.
NextLoad ==
  \/ Render
  \/ \E listing \in AgentListings : AgentsLoaded(listing)
  \/ \E t \in Inputs : TypeText(t)
  \/ \E id \in view.listed : SelectConversation(id)
  \/ \E a \in {"A1", "A2", "A3"} : ChangeAgent(a)
  \/ LoadRestores
  \/ LoadWithoutData
  \/ SubmitSend(1, "none")
  \/ CreateThrows(1)

SpecLoad ==
  InitLoad /\ [][NextLoad]_vars /\ WF_vars(LoadRestores) /\ WF_vars(LoadWithoutData)

\* The chat command with a storage that accepts every write, in the order of
\* the setItem calls: one send at a time, no dropdown.
NextDurable ==
  \/ Render
  \/ \E listing \in AgentListings : AgentsLoaded(listing)
  \/ \E t \in Inputs : TypeText(t)
  \/ \E id \in view.listed : SelectConversation(id)
  \/ WriteLands
  \/ LoadRestores
  \/ LoadWithoutData
  \/ \E method \in StreamMethods : SubmitSend(1, method)
  \/ StreamOpens(1)
  \/ StreamFails(1)
  \/ \E event \in ViewPool : StreamYields(1, event)
  \/ StreamEnds(1)
  \/ \E response \in ViewResponses : CreateResolves(1, response)
  \/ CreateThrows(1)

SpecDurable == Init /\ [][NextDurable]_vars

\* The store with its initial read still under way: a caller of the hook
\* issues startConversation and addMessage while getItem, called at mount, has
\* yet to deliver the stored blob; the writes land in call order.
InitEarly ==
  /\ conversations = <<>>
  /\ activeConversationId = NoId
  /\ agentFilter = "all"
  /\ isLoading = TRUE
  /\ storage = Blob(<<StoredConversation>>)
  /\ pendingWrites = <<>>
  /\ loadRead = storage
  /\ agentsWithColors = <<>>
  /\ agentsLoading = TRUE
  /\ searchText = <<>>
  /\ isStreaming = FALSE
  /\ streamingContent = <<>>
  /\ view = ViewOf
  /\ now = 0
  /\ draws = 0
  /\ send = [s \in Sends |-> IdleSend]
  /\ nEvents = 0
  /\ attempt = Told("none", FALSE)
  /\ op = NoOp
  /\ ServicesIdle

NextEarly ==
  \/ Tick
  \/ \E r \in 0..MaxRand : startConversation("A1", r)
  \/ \E id \in KnownIds, role \in {"user", "assistant"}, r \in 0..MaxRand :
        addMessage(id, role, T_Hi, r)
  \/ LoadRestores
  \/ WriteLands

SpecEarly == InitEarly /\ [][NextEarly]_vars

\* One send from a settled view while the user may select and delete
\* conversations, the one the send writes to included.
NextDeleteMidSend ==
  \/ Render
  \/ \E id \in view.listed : SelectConversation(id)
  \/ DeleteSelected
  \/ WriteLands
  \/ \E method \in StreamMethods : SubmitSend(1, method)
  \/ StreamOpens(1)
  \/ StreamFails(1)
  \/ \E event \in ViewPool : StreamYields(1, event)
  \/ StreamEnds(1)
  \/ \E response \in ViewResponses : CreateResolves(1, response)
  \/ CreateThrows(1)

SpecDeleteMidSend == InitEngine /\ [][NextDeleteMidSend]_vars

InitAccounts ==
  /\ conversations = <<>>
  /\ activeConversationId = NoId
  /\ agentFilter = "all"
  /\ isLoading = TRUE
  /\ storage = NoBlob
  /\ pendingWrites = <<>>
  /\ loadRead = NoBlob
  /\ agentsWithColors = <<>>
  /\ agentsLoading = TRUE
  /\ searchText = <<>>
  /\ isStreaming = FALSE
  /\ streamingContent = <<>>
  /\ view = ViewOf
  /\ now = 0
  /\ draws = 0
  /\ send = [s \in Sends |-> IdleSend]
  /\ nEvents = 0
  /\ attempt = Told("none", FALSE)
  /\ op = NoOp
  /\ prefs \in PrefsChoices
  /\ clientCache = <<>>
  /\ constructed = 0
  /\ clientLog = <<>>
  /\ listRequests = <<>>
  /\ agentsData = NoData
  /\ selectedItem = NoId

NextAccounts ==
  \/ \E accountId \in {T_project1, T_project2, T_project3} : getClientForAccount(accountId)
  \/ FetchStarts
  \/ \E i \in DOMAIN listRequests, result \in ListResults : ListResolves(i, result)
  \/ \E i \in DOMAIN listRequests : ListRejects(i)
  \/ Aggregate

SpecAccounts == InitAccounts /\ [][NextAccounts]_vars

\* ------------------------------------------------------ titles of the store
\* A text of n letters.
Letters(n) == [i \in 1..n |-> "x"]

\* Contents around the title limit, with and without surrounding spaces.
TitleTexts ==
  {Letters(0), Letters(2), Letters(49), Letters(50), Letters(51), Letters(52),
   <<" ">> \o Letters(2), <<" ">> \o Letters(50), Letters(51) \o <<" ">>}

\* Conversations started and messages of any of these contents appended.
NextTitle ==
  \/ \E r \in 0..MaxRand : startConversation("A1", r)
  \/ \E id \in KnownIds, role \in {"user", "assistant"}, content \in TitleTexts,
        r \in 0..MaxRand : addMessage(id, role, content, r)

SpecTitle == InitStore /\ [][NextTitle]_vars

\* ------------------------------------------------------------- properties
Last(seq) == seq[Len(seq)]

\* getConversation(id).messages, the empty sequence when nothing has that id
MessagesOf(id) ==
  IF FindIndex(conversations, id) = 0 THEN <<>>
  ELSE conversations[FindIndex(conversations, id)].messages

Returned(s) == send[s].pc = "done"

InFlight(s) == send[s].pc \in {"awaitStream", "streaming", "awaitCreate"}

\* C1: when a send ends with an uncaught error (the failure toast of the outer
\* catch), the target conversation holds as many messages as before the send:
\* the user message and the placeholder are both retracted.
C1_FullRetraction ==
  \A s \in Sends :
    (Returned(s) /\ send[s].toast = "failure")
      => Len(MessagesOf(send[s].convId)) = send[s].countBefore

\* C2: whenever the streaming attempt fails (no stream method, the request
\* throws, or the iteration throws at any point) exactly one non-streaming
\* request is issued, and the assistant message written with persist=true holds
\* the text reconstructed from that response alone.
C2_FallbackAlone ==
  \A s \in Sends :
    (send[s].started /\ send[s].streamFailed)
      => /\ send[s].fallbackRequests = 1
         /\ (Returned(s) /\ send[s].toast = "success")
              => /\ Last(send[s].updates).persist
                 /\ Last(MessagesOf(send[s].convId)).content =
                      FallbackAccumulate(NoLocals, ResponseMessages(send[s].response)).finalAnswer

\* Whether an event is an assistant-content event carrying identifier id.
Carries(event, id) == event.message_type = "assistant_message" /\ event.id = id

RECURSIVE Discovered(_, _, _)
\* The identifiers of the assistant-content events, in order of first appearance;
\* with needText, of first appearance with a non-empty text.
Discovered(events, needText, acc) ==
  IF events = <<>> THEN acc
  ELSE LET e == Head(events)
           counts == /\ e.message_type = "assistant_message"
                     /\ Truthy(e.id)
                     /\ needText => Truthy(extractAssistantContent(e.content))
           fresh == \A i \in DOMAIN acc : acc[i] # e.id
       IN Discovered(Tail(events), needText, IF counts /\ fresh THEN Append(acc, e.id) ELSE acc)

\* The longest text the events carried for id (the earliest of the longest).
LongestFor(events, id) ==
  LET at == {k \in DOMAIN events : Carries(events[k], id)}
      TextAt(k) == extractAssistantContent(events[k].content)
      best == CHOOSE k \in at :
                \A j \in at : \/ Len(TextAt(j)) < Len(TextAt(k))
                              \/ Len(TextAt(j)) = Len(TextAt(k)) /\ j >= k
  IN TextAt(best)

\* The longest texts of the identifiers, concatenated in the order given.
AnswerBy(events, ids) == JoinWith([i \in DOMAIN ids |-> LongestFor(events, ids[i])], <<>>)

\* The sends whose answer is what the stream alone produced.
Streamed(s) == send[s].pc = "streaming" \/ (Returned(s) /\ send[s].streamingWorked)

\* C3 as stated: while a stream is consumed the answer is the concatenation of
\* the longest text of each identifier, in order of first appearance of the
\* identifiers (whatever the text of that first appearance).
C3_FirstAppearance ==
  \A s \in Sends :
    Streamed(s) =>
      send[s].loc.finalAnswer = AnswerBy(send[s].seen, Discovered(send[s].seen, FALSE, <<>>))

\* C3 amended: while a stream is consumed, the map holds one entry per
\* identifier that came with a non-empty text, in order of the first such
\* event, each with the longest text seen for it; the running answer, the live
\* text and the in-flight message are the concatenation of these texts.
C3_LongestPerId ==
  \A s \in Sends :
    Streamed(s) =>
      LET ids == Discovered(send[s].seen, TRUE, <<>>)
          answer == AnswerBy(send[s].seen, ids)
      IN /\ [i \in DOMAIN send[s].loc.contentByMessageId |->
               send[s].loc.contentByMessageId[i].key] = ids
         /\ \A i \in DOMAIN ids :
              send[s].loc.contentByMessageId[i].value = LongestFor(send[s].seen, ids[i])
         /\ send[s].loc.finalAnswer = answer
         /\ send[s].pc = "streaming" => streamingContent = answer
         /\ Last(MessagesOf(send[s].convId)).content = answer

\* C3 witness: the stream gave "Hi" then "Hi there" for the same identifier,
\* then a text for a second identifier; the answer is "Hi there" then that text.
C3_Witness ==
  \E s \in Sends :
    /\ send[s].pc = "streaming"
    /\ send[s].seen = <<AssistantEvent(M1, StringContent(T_Hi)),
                        AssistantEvent(M1, StringContent(T_HiThere)),
                        AssistantEvent(M2, ArrayContent(<<TextBlock(T_Yo), OtherBlock>>))>>
    /\ send[s].loc.finalAnswer = T_HiThere \o T_Yo
    /\ streamingContent = T_HiThere \o T_Yo

\* C4: "hello" sent to A1, the stream yields assistant_message{content:"Hi"},
\* then assistant_message{content:"Hi there"} (no other field), then ends: the
\* persisted assistant message holds "Hi there"; every assistant-content event
\* with a non-empty text contributes to the answer, identifier or not.
C4_ContentWithoutId ==
  \A s \in Sends :
    /\ ( /\ Returned(s) /\ send[s].streamingWorked
         /\ send[s].text = T_hello /\ send[s].agentId = "A1"
         /\ send[s].seen = <<AssistantEvent(Undefined, StringContent(T_Hi)),
                             AssistantEvent(Undefined, StringContent(T_HiThere))>> )
         => Last(MessagesOf(send[s].convId)).content = T_HiThere
    /\ ( /\ Streamed(s)
         /\ \E k \in DOMAIN send[s].seen :
              /\ send[s].seen[k].message_type = "assistant_message"
              /\ Truthy(extractAssistantContent(send[s].seen[k].content)) )
         => Truthy(send[s].loc.finalAnswer)

\* C5: a submit with no agent selected reports an "unset agent" error, issues no
\* backend request and leaves the store alone (nothing started, appended or
\* written).
C5_UnsetAgentReported ==
  [][(attempt' # attempt /\ attempt'.outcome = "no-agent")
       => /\ attempt'.error
          /\ UNCHANGED <<conversations, activeConversationId, storage, pendingWrites, send>>]_vars

\* C6: when the stream delivers an error event or a stop reason of failure, the
\* send tells its caller of an error, and the text streamed before it is
\* written with persist=true into the in-flight message.
C6_RemoteErrorSurfaced ==
  \A s \in Sends :
    ( /\ Returned(s) /\ send[s].streamingWorked
      /\ \E k \in DOMAIN send[s].seen : send[s].seen[k] \in {ErrorEvent, StopReasonError} )
      => /\ send[s].toast = "failure"
         /\ Last(send[s].updates).persist
         /\ Last(MessagesOf(send[s].convId)).content = send[s].loc.finalAnswer

RECURSIVE RunningUpdates(_, _)
\* The intermediate updates the events of a stream call for, in arrival order.
RunningUpdates(loc, events) ==
  IF events = <<>> THEN <<>>
  ELSE LET next == ProcessChunk(loc, Head(events))
       IN (IF PushesUpdate(Head(events))
           THEN <<[persist |-> FALSE, content |-> next.finalAnswer,
                   reasoning |-> next.finalReasoning]>>
           ELSE <<>>) \o RunningUpdates(next, Tail(events))

\* setItem calls of the appends (and of the start) that open a send
OpeningWrites(s) == IF send[s].convId = StoredConversation.id THEN 2 ELSE 3

\* C7: within one send the persist=false updates come in the order of their
\* events and write nothing to storage; exactly one persist=true update is
\* issued, after every intermediate one, and none follows it.
C7_OneFinalWrite ==
  \A s \in Sends :
    send[s].started =>
      LET u == send[s].updates
          finals == {k \in DOMAIN u : u[k].persist}
      IN /\ \A k \in finals : k = Len(u)
         /\ SubSeq(u, 1, Len(u) - Cardinality(finals)) = RunningUpdates(NoLocals, send[s].seen)
         /\ Len(pendingWrites) = OpeningWrites(s) + Cardinality(finals)
         /\ Returned(s) => Cardinality(finals) = 1

\* C8: in every interleaving of submits (a second one before the view has
\* re-rendered included) no conversation has two sends between their appends
\* and their final write.
C8_OneInFlight ==
  \A s, q \in Sends :
    (s # q /\ InFlight(s) /\ InFlight(q)) => send[s].convId # send[q].convId

\* Whether updateLastMessage leaves this conversation's messages alone by the
\* claim: its last message has role user, or it has no messages.
EndsWithUser(conv) == conv.messages = <<>> \/ Last(conv.messages).role = "user"

\* C9: updateLastMessage on a conversation whose last message has role user,
\* or that has no messages, changes no message: same count, same content and
\* reasoning of every message, no message created.
C9_NoOpUnlessAssistant ==
  op.name = "updateLastMessage" =>
    /\ Len(conversations) = Len(op.before)
    /\ \A i \in DOMAIN op.before :
         (op.before[i].id = op.conversationId /\ EndsWithUser(op.before[i]))
           => /\ conversations[i].id = op.before[i].id
              /\ conversations[i].messages = op.before[i].messages

\* C9 witness: updateLastMessage was issued with a new content on a
\* conversation whose last message has role user.
C9_Witness ==
  /\ op.name = "updateLastMessage"
  /\ \E i \in DOMAIN op.before :
       /\ op.before[i].id = op.conversationId
       /\ op.before[i].messages # <<>>
       /\ Last(op.before[i].messages).role = "user"
       /\ Last(op.before[i].messages).content # op.content
       /\ conversations[i].messages = op.before[i].messages

\* C10: after addMessage(c, m) the conversation c ends with m, its earlier
\* messages are unchanged and in the same order, and the id generated for m
\* differs from the id of every message the conversation already had.
C10_AppendedWithFreshId ==
  op.name = "addMessage" =>
    \A i \in DOMAIN op.before :
      op.before[i].id = op.conversationId =>
        LET old == op.before[i].messages
            new == conversations[i].messages
        IN /\ Len(new) = Len(old) + 1
           /\ SubSeq(new, 1, Len(old)) = old
           /\ Last(new).role = op.role
           /\ Last(new).content = op.content
           /\ Last(new).id = op.id
           /\ \A k \in DOMAIN old : old[k].id # op.id

\* The conversations an addMessage gave their first message.
FirstAppendAt(i) ==
  /\ op.name = "addMessage"
  /\ op.before[i].id = op.conversationId
  /\ op.before[i].messages = <<>>

\* C11 as stated: the title stored with the first message is the content of the
\* first user message verbatim when it has at most 50 characters, its first 47
\* characters and a 3-character ellipsis (50 in total) when it has 51 or more,
\* and "New Conversation" when there is no user message.
C11_TitleOfContent ==
  \A i \in DOMAIN op.before :
    FirstAppendAt(i) =>
      LET title == conversations[i].title
      IN IF op.role = "user"
         THEN /\ Len(op.content) <= 50 => title = op.content
              /\ Len(op.content) >= 51 =>
                   /\ title = SubSeq(op.content, 1, 47) \o <<".", ".", ".">>
                   /\ Len(title) = 50
         ELSE title = T_NewConversation

\* C11 amended: the same rule on the content with its surrounding white space
\* removed, the limit of 50 counting the trimmed content.
C11_TitleOfTrimmedContent ==
  \A i \in DOMAIN op.before :
    FirstAppendAt(i) =>
      LET title == conversations[i].title
          trimmed == Trim(op.content)
      IN IF op.role = "user"
         THEN /\ Len(trimmed) <= 50 => title = trimmed
              /\ Len(trimmed) >= 51 =>
                   /\ title = SubSeq(trimmed, 1, 47) \o <<".", ".", ".">>
                   /\ Len(title) = 50
         ELSE title = T_NewConversation

\* C11 witness: a user message of 51 letters was the first message of a
\* conversation, whose title is 47 letters and the ellipsis.
C11_Witness ==
  \E i \in DOMAIN op.before :
    /\ FirstAppendAt(i)
    /\ op.role = "user"
    /\ op.content = Letters(51)
    /\ conversations[i].title = Letters(47) \o <<".", ".", ".">>

\* The summary the listing owes for item k of the resolved request of account i.
Tagged(i, k) ==
  [id |-> listRequests[i].result.items[k].id,
   name |-> listRequests[i].result.items[k].name,
   accountId |-> parseAccounts(prefs)[i].id,
   accountName |-> parseAccounts(prefs)[i].name]

\* The items of the requests that resolved, as (account, position) pairs.
Listed ==
  UNION {{<<i, k>> : k \in DOMAIN listRequests[i].result.items} :
           i \in {j \in DOMAIN listRequests : listRequests[j].state = "resolved"}}

\* C12: whichever requests of the accounts fail and in whatever order they
\* complete, the aggregate listing succeeds and holds exactly the agents of the
\* accounts whose request succeeded, each tagged with the id and the name of its
\* own account.
C12_IsolatedListing ==
  /\ agentsData.state # "rejected"
  /\ agentsData.state = "resolved" =>
       /\ Len(agentsData.agents) = Cardinality(Listed)
       /\ \A p \in Listed :
            \E n \in DOMAIN agentsData.agents : agentsData.agents[n] = Tagged(p[1], p[2])
       /\ \A n \in DOMAIN agentsData.agents :
            \E p \in Listed : agentsData.agents[n] = Tagged(p[1], p[2])

\* C12 witness: the request of the second account resolved first with two
\* agents, the request of the first account then failed, and the aggregate
\* listing holds the two agents.
C12_Witness ==
  /\ agentsData.state = "resolved"
  /\ Len(listRequests) = 2
  /\ listRequests[2].state = "resolved" /\ listRequests[2].at = 1
  /\ Len(listRequests[2].result.items) = 2
  /\ listRequests[1].state = "rejected" /\ listRequests[1].at = 2
  /\ Len(agentsData.agents) = 2
  /\ \A n \in DOMAIN agentsData.agents : agentsData.agents[n].accountId = T_project2

\* C13: under one configuration every getClientForAccount call with the same
\* configured account id returns the same client, a client is constructed at
\* most once per (id, apiKey) pair and never evicted, and a call with an id that
\* is not configured returns absent and neither constructs nor caches a client.
C13_StableClients ==
  LET accounts == parseAccounts(prefs)
  IN /\ \A i, j \in DOMAIN clientLog :
          clientLog[i].accountId = clientLog[j].accountId
            => clientLog[i].client = clientLog[j].client
     /\ \A i \in DOMAIN clientLog :
          (clientLog[i].client = NoClient) <=> (FindAccount(accounts, clientLog[i].accountId) = 0)
     /\ constructed = Len(clientCache)
     /\ \A a, b \in DOMAIN clientCache :
          a # b => /\ clientCache[a].key # clientCache[b].key
                   /\ clientCache[a].value # clientCache[b].value
     /\ \A a \in DOMAIN clientCache :
          \E i \in DOMAIN clientLog :
            /\ FindAccount(accounts, clientLog[i].accountId) # 0
            /\ clientCache[a].key =
                 accounts[FindAccount(accounts, clientLog[i].accountId)].id \o <<"-">>
                   \o accounts[FindAccount(accounts, clientLog[i].accountId)].apiKey
            /\ clientCache[a].value = clientLog[i].client

\* C13 witness: project1 was asked for twice with an unknown id in between; one
\* client was constructed and returned both times, the unknown id got none.
C13_Witness ==
  /\ Len(clientLog) = 3
  /\ clientLog[1].accountId = T_project1 /\ clientLog[1].client # NoClient
  /\ clientLog[2].accountId = T_project3 /\ clientLog[2].client = NoClient
  /\ clientLog[3].accountId = T_project1 /\ clientLog[3].client = clientLog[1].client
  /\ constructed = 1

\* The tool-call ids of the tool-invocation events a send received.
ToolCallIds(s) ==
  {send[s].seen[k].tool_call.tool_call_id :
     k \in {j \in DOMAIN send[s].seen : send[s].seen[j].message_type = "tool_call_message"}}

Others(convs, c) == SelectSeq(convs, LAMBDA conv : conv.id # c)

\* C15: after deleteConversation(c), c is absent from the collection and from
\* the blob written to storage, and the active conversation is not c; after
\* clearAllConversations the collection is empty and no conversation is active;
\* deleting a conversation other than the active one leaves the active pointer
\* and every other conversation unchanged.
C15_DeleteAndClear ==
  [][/\ (op' # op /\ op'.name = "deleteConversation") =>
          LET c == op'.conversationId
          IN /\ FindIndex(conversations', c) = 0
             /\ pendingWrites' # <<>>
             /\ Last(pendingWrites').kind = "json"
             /\ FindIndex(Last(pendingWrites').convs, c) = 0
             /\ ActiveConversationOf(conversations', activeConversationId').id # c
             /\ conversations' = Others(conversations, c)
             /\ activeConversationId # c => activeConversationId' = activeConversationId
     /\ (op' # op /\ op'.name = "clearAllConversations") =>
          /\ conversations' = <<>>
          /\ activeConversationId' = NoId
          /\ ActiveConversationOf(conversations', activeConversationId') = NoConv
    ]_vars

\* C15 witness: a listed conversation other than the active one was deleted;
\* the active one is still there and still active.
C15_Witness ==
  /\ op.name = "deleteConversation"
  /\ FindIndex(op.before, op.conversationId) # 0
  /\ activeConversationId # NoId
  /\ activeConversationId # op.conversationId
  /\ FindIndex(conversations, activeConversationId) # 0

\* C16: when the agent the user selected is in no entry of the freshest listing,
\* no other agent is silently substituted for it: a send submitted from an
\* up-to-date render with no conversation open goes to the agent of the dropdown.
C16_NoSilentSubstitute ==
  [][\A s \in Sends :
       (/\ send[s].pc = "idle" /\ send'[s].pc # "idle"
        /\ view = ViewOf
        /\ agentFilter # "all"
        /\ view.activeConversation = NoConv)
       => send'[s].agentId = agentFilter]_vars

\* C17: every conversation keeps the agentId and accountId it was created
\* with: no store operation (append, in-place update, delete of another
\* conversation, load) and no send ever changes them.
C17_OwnerKept ==
  [][/\ \A i \in DOMAIN conversations : \A j \in DOMAIN conversations' :
          conversations[i].id = conversations'[j].id =>
            /\ conversations'[j].agentId = conversations[i].agentId
            /\ conversations'[j].accountId = conversations[i].accountId
     /\ (loadRead.kind = "json" /\ loadRead' = NoRead) =>
          \A k \in DOMAIN loadRead.convs :
            Truthy(loadRead.convs[k].accountId) =>
              /\ conversations'[k].id = loadRead.convs[k].id
              /\ conversations'[k].agentId = loadRead.convs[k].agentId
              /\ conversations'[k].accountId = loadRead.convs[k].accountId
    ]_vars

\* C17 witness: the stored conversation of the second account was loaded, got
\* a message pair of a send, and the other stored conversation was deleted.
C17_Witness ==
  /\ op.name = "deleteConversation"
  /\ op.conversationId = StoredConversation.id
  /\ \E i \in DOMAIN conversations :
       /\ conversations[i].id = StoredConversation2.id
       /\ conversations[i].agentId = "A2"
       /\ conversations[i].accountId = T_project2
       /\ Len(conversations[i].messages) = 4
       /\ send[1].pc = "done"

\* C18: whether the initial storage read succeeds, returns nothing, returns
\* unparsable data or throws, the loading flag of the store eventually becomes
\* false; on a failed read the store holds an empty collection and no error
\* propagates to the caller.
C18_LoadSettles ==
  /\ <>(isLoading = FALSE)
  /\ [][(loadRead.kind \in {"none", "corrupt", "throws"} /\ loadRead' # loadRead) =>
          /\ conversations' = <<>>
          /\ isLoading' = FALSE
          /\ loadRead' = NoRead]_vars

\* C18 witness: the stored text did not parse; the load has settled with the
\* flag cleared and nothing in the collection.
C18_Witness ==
  /\ storage = CorruptBlob
  /\ loadRead = NoRead
  /\ isLoading = FALSE
  /\ conversations = <<>>

\* The primary account of the preferences (parseAccounts: project 1).
PrimaryAccount == parseAccounts(prefs)[1]

\* C19: on load, every persisted conversation lacking accountId/accountName
\* receives the primary account's id and the primary account's configured
\* display name, while conversations that already carry both are loaded
\* unchanged.
C19_MigratedToPrimary ==
  [][(loadRead.kind = "json" /\ loadRead' = NoRead) =>
       /\ Len(conversations') = Len(loadRead.convs)
       /\ \A k \in DOMAIN loadRead.convs :
            LET stored == loadRead.convs[k]
                loaded == conversations'[k]
            IN IF Truthy(stored.accountId) /\ Truthy(stored.accountName)
               THEN StringifyConversation(loaded) = stored
               ELSE /\ loaded.accountId = PrimaryAccount.id
                    /\ loaded.accountName = PrimaryAccount.name
                    /\ StringifyConversation(loaded) =
                         [stored EXCEPT !.accountId = PrimaryAccount.id,
                                        !.accountName = PrimaryAccount.name]
    ]_vars

\* The send ended in the outer catch: neither the stream nor the non-streaming
\* request delivered.
Failed(s) ==
  /\ Returned(s)
  /\ ~send[s].streamingWorked
  /\ send[s].response = IdleSend.response

PlaceholderAt(s) == send[s].countBefore + 2

\* C21: every incremental and final update issued by a send modifies only the
\* placeholder assistant message that the same send appended, never a message
\* of another send or of an earlier exchange, even when sends overlap or the
\* user selects another conversation mid-stream.
C21_OwnPlaceholderOnly ==
  [][\A s \in Sends :
       send'[s].updates # send[s].updates =>
         /\ Len(conversations') = Len(conversations)
         /\ \A i \in DOMAIN conversations :
              /\ conversations'[i].id = conversations[i].id
              /\ Len(conversations'[i].messages) = Len(conversations[i].messages)
              /\ \A k \in DOMAIN conversations[i].messages :
                   (conversations[i].id # send[s].convId \/ k # PlaceholderAt(s))
                     => conversations'[i].messages[k] = conversations[i].messages[k]
    ]_vars

RECURSIVE StreamOver(_, _)
\* The locals of the stream loop after these events, from the given locals.
StreamOver(loc, events) ==
  IF events = <<>> THEN loc ELSE StreamOver(ProcessChunk(loc, Head(events)), Tail(events))

\* C22: for the same sequence of events the non-streaming fallback reconstructs
\* the same (answer, reasoning) pair as the streaming path: per-identifier
\* best-known text, reasoning fragments joined with newlines, hidden reasoning
\* included.  Stated for the sends that never had a stream.
C22_FallbackAsStream ==
  \A s \in Sends :
    (Returned(s) /\ send[s].streamRequests = 0 /\ send[s].response # IdleSend.response) =>
      LET streamed == StreamOver(NoLocals, ResponseMessages(send[s].response))
      IN /\ send[s].loc.finalAnswer = streamed.finalAnswer
         /\ send[s].loc.finalReasoning = streamed.finalReasoning

\* C23: store operations and their durable writes take effect in invocation
\* order, so whenever no send is in flight and no write is pending the stored
\* collection equals the in-memory collection, also after a failed send.
C23_StoredEqualsMemory ==
  ((\A s \in Sends : ~InFlight(s)) /\ pendingWrites = <<>> /\ loadRead = NoRead) =>
    \/ storage = Blob(conversations)
    \/ storage = NoBlob /\ conversations = <<>>

\* C24: the updatedAt of a conversation changes only when one of its messages
\* is appended or replaced in place (an updateLastMessage that modifies no
\* message leaves it unchanged), and it never decreases.
C24_UpdatedAtWithMessages ==
  [][\A i \in DOMAIN conversations : \A j \in DOMAIN conversations' :
       conversations'[j].id = conversations[i].id =>
         /\ conversations'[j].updatedAt >= conversations[i].updatedAt
         /\ conversations'[j].updatedAt # conversations[i].updatedAt
              => \/ conversations'[j].messages # conversations[i].messages
                 \* the last message was replaced by one of the same content
                 \/ /\ op'.name = "updateLastMessage"
                    /\ ~EndsWithUser(conversations[i])
    ]_vars

\* C25: after each reasoning (or hidden-reasoning) event of a stream the running
\* reasoning trace, the fragments so far joined with newlines in arrival order,
\* is pushed to the in-flight message before the next event is processed, as
\* is done for content events.
C25_ReasoningPushedLive ==
  \A s \in Sends :
    (/\ send[s].pc = "streaming"
     /\ send[s].seen # <<>>
     /\ Last(send[s].seen).message_type \in {"reasoning_message", "hidden_reasoning_message"}
     /\ Truthy(OrElse(OrElse(Last(send[s].seen).reasoning,
                             Last(send[s].seen).hidden_reasoning), <<>>)))
    => /\ send[s].loc.finalReasoning = JoinWith(send[s].loc.reasoningParts, NL)
       /\ Last(MessagesOf(send[s].convId)).reasoning = send[s].loc.finalReasoning

\* The message types the stream loop has a case for.
Classified == {"assistant_message", "reasoning_message", "hidden_reasoning_message"}

\* C26: tool-result, heartbeat/keepalive, usage-accounting and unrecognized
\* events leave the running answer, the running reasoning, the live observable
\* and the conversation store unchanged, and never raise an error (the loop
\* goes on to the next event).
C26_QuietEvents ==
  [][\A s \in Sends :
       (/\ Len(send'[s].seen) = Len(send[s].seen) + 1
        /\ Last(send'[s].seen).message_type \notin Classified)
       => /\ send'[s].loc = send[s].loc
          /\ streamingContent' = streamingContent
          /\ conversations' = conversations
          /\ pendingWrites' = pendingWrites
          /\ send'[s].updates = send[s].updates
          /\ send'[s].pc = "streaming"
          /\ send'[s].toast = send[s].toast
    ]_vars

\* C26 witness: content arrived, then an event of an unknown type that carries
\* content, then a tool result; the answer is still the content alone.
C26_Witness ==
  /\ send[1].pc = "streaming"
  /\ send[1].seen = <<AssistantEvent(M1, StringContent(T_Hi)), UnknownEvent, ToolReturnEvent>>
  /\ send[1].loc.finalAnswer = T_Hi
  /\ streamingContent = T_Hi

\* C27: no persisted conversation is lost through a race with the initial
\* load: when startConversation ran before the load completed, then once the
\* load and all writes have finished both the in-memory collection and the
\* stored blob hold every conversation that was in storage at start plus the
\* newly created one.
C27_NothingLostToLoad ==
  (loadRead = NoRead /\ pendingWrites = <<>> /\ op.name = "startConversation") =>
    /\ FindIndex(conversations, StoredConversation.id) # 0
    /\ FindIndex(conversations, op.id) # 0
    /\ storage.kind = "json"
    /\ FindIndex(storage.convs, StoredConversation.id) # 0
    /\ FindIndex(storage.convs, op.id) # 0

\* The conversation of a started send is not in the collection.
Gone(s) == send[s].started /\ FindIndex(conversations, send[s].convId) = 0

\* C28: a conversation deleted while its send is in flight is never re-created
\* or re-persisted: every later incremental update and the final persist=true
\* update of that send leave the collection, and each blob written to storage,
\* without that conversation.
C28_DeletedStaysDeleted ==
  [][\A s \in Sends :
       Gone(s) =>
         /\ FindIndex(conversations', send[s].convId) = 0
         /\ \A k \in DOMAIN pendingWrites' :
              k > Len(pendingWrites) =>
                FindIndex(pendingWrites'[k].convs, send[s].convId) = 0
    ]_vars

\* C28 witness: the conversation was deleted while the stream was open; an
\* incremental update and the final update followed, the send has returned
\* with its success toast, and the final update wrote a blob without it.
C28_Witness ==
  /\ Gone(1)
  /\ op.name = "deleteConversation"
  /\ op.conversationId = send[1].convId
  /\ Returned(1)
  /\ send[1].streamingWorked
  /\ Len(send[1].updates) = 2
  /\ pendingWrites # <<>>
  /\ FindIndex(Last(pendingWrites).convs, send[1].convId) = 0

\* C29: every send appends its user message and placeholder to a conversation
\* whose agentId is the id of the agent the backend request is addressed to
\* (a new conversation of the selected agent when the active one is absent or
\* belongs to another agent).
C29_AppendsToAgentsConversation ==
  [][\A s \in Sends :
       (~send[s].started /\ send'[s].started) =>
         LET i == FindIndex(conversations', send'[s].convId)
         IN /\ i # 0
            /\ conversations'[i].agentId = send'[s].agentId
            /\ Len(conversations'[i].messages) >= 2
            /\ LET n == Len(conversations'[i].messages)
               IN /\ conversations'[i].messages[n - 1].role = "user"
                  /\ conversations'[i].messages[n - 1].content = send'[s].text
                  /\ conversations'[i].messages[n].role = "assistant"
                  /\ conversations'[i].messages[n].content = <<>>
    ]_vars

\* C30: in every reachable state of the chat command's store the messages of
\* each conversation alternate strictly user, assistant, user, assistant,
\* starting with a user message, including after failed sends.
C30_Alternation ==
  \A i \in DOMAIN conversations :
    \A k \in DOMAIN conversations[i].messages :
      conversations[i].messages[k].role = IF k % 2 = 1 THEN "user" ELSE "assistant"

\* C30 witness: a send on the stored conversation failed after its stream had
\* delivered text; the conversation holds the old exchange and the new one.
C30_Witness ==
  /\ Returned(1)
  /\ send[1].toast = "failure"
  /\ Len(send[1].updates) > 0
  /\ Len(MessagesOf(send[1].convId)) = 4
  /\ MessagesOf(send[1].convId)[3].role = "user"
  /\ MessagesOf(send[1].convId)[4].role = "assistant"

====
